---- MODULE Spec2Model ----
(***************************************************************************)
(* Verification model of nfe-proxy: the document-number sequencer kept in  *)
(* JSON files (routes/nfe.js, routes/nfce-v2.js), the access-key           *)
(* generator, the jurisdiction router (utils/sefaz-config.js) and the      *)
(* emission pipeline of the /emitir and /autorizar handlers.               *)
(***************************************************************************)
EXTENDS Integers, Sequences, FiniteSets, TLC

VARIABLES
    arq,        \* which numbering file this behaviour follows: "nfe" or "nfce" (no call touches both)
    arquivo,    \* the content of that file: arquivo[chave] = ultimo, or Ausente
    pc,         \* per server process: "idle", or "carregado" between the read and the write of the file
    loc,        \* per server process: the call in progress with the numeracao object it loaded, or its last answer
    emitidos,   \* history: per key, the set of numbers returned by obterProximoNumero
    ultima,     \* history: the advance that raised a counter, while it is the last call that completed
    limpo,      \* history: no file read or write has failed so far
    soProximo,  \* history: only obterProximoNumero calls have been started so far
    entrada,    \* pure functions: the arguments of the call under study
    saida,      \* pure functions: what the call returned
    pedido,     \* emission: the body of the POST /emitir request being handled
    fase,       \* emission: how far the handlers have come with that request
    etapas,     \* emission: history, the pipeline stages performed, in order
    doc,        \* emission: the locals the handlers carry from stage to stage
    posts,      \* emission: history, the number of POSTs sent to the authority
    resposta,   \* emission: what POST /emitir answered to its caller
    certServidor,     \* server: the credential of CERT_PFX_BASE64 / CERT_PASSWORD
    cachedHttpsAgent  \* server: the https agent cached by getHttpsAgent, or null

seqVars == <<arq, arquivo, pc, loc, emitidos, ultima, limpo, soProximo>>

puroVars == <<entrada, saida>>

emiVars == <<pedido, fase, etapas, doc, posts, resposta>>

srvVars == <<certServidor, cachedHttpsAgent>>

vars == <<arq, arquivo, pc, loc, emitidos, ultima, limpo, soProximo, entrada, saida,
          pedido, fase, etapas, doc, posts, resposta, certServidor, cachedHttpsAgent>>

----------------------------------------------------------------------------
(* Bounds *)

NumProcs == 2
MaxNumero == 2

Procs == 1..NumProcs

\* data/numeracao_nfe.json (routes/nfe.js) and data/numeracao_nfce_v2.json (routes/nfce-v2.js)
Arquivos == {"nfe", "nfce"}

\* `${cnpj}_${serie}` keys of one file (two are enough to observe frame effects)
Chaves == {"A_1", "B_1"}

\* a key that has no entry in the parsed JSON object
Ausente == -1

\* numeracao[chave].ultimo as read after `if (!numeracao[chave]) numeracao[chave] = { ultimo: 0 }`
Ultimo(v) == IF v = Ausente THEN 0 ELSE v

NumeracaoVazia == [k \in Chaves |-> Ausente]

Nenhuma == [op |-> "nenhuma"]

\* the keys of a file other than k are the same in two contents
OutrasIguais(c1, c2, k) == \A j \in Chaves \ {k} : c1[j] = c2[j]

----------------------------------------------------------------------------
(* NumberSequencer: pure parts *)

\* carregarNumeracao: the parsed file, or {} when the file is missing or
\* existsSync/readFileSync/JSON.parse throws (the catch only logs)
CarregarNumeracao(conteudo, leituraOk) ==
    IF leituraOk THEN conteudo ELSE NumeracaoVazia

\* salvarNumeracao: writeFileSync of the whole object; a throw is caught and
\* logged, leaving the file as it was
SalvarNumeracao(conteudo, numeracao, escritaOk) ==
    IF escritaOk THEN numeracao ELSE conteudo

\* obterProximoNumero between the load and the save
ObterProximoNumero(numeracao, chave) ==
    LET proximo == Ultimo(numeracao[chave]) + 1
    IN  [numeracao |-> [numeracao EXCEPT ![chave] = proximo], proximo |-> proximo]

\* atualizarUltimoNumero between the load and the (conditional) save
AtualizarUltimoNumero(numeracao, chave, numero) ==
    IF numeracao[chave] = Ausente \/ numeracao[chave] < numero
    THEN [numeracao |-> [numeracao EXCEPT ![chave] = numero], salvar |-> TRUE]
    ELSE [numeracao |-> numeracao, salvar |-> FALSE]

\* POST /api/nfce/v2/atualizar-numero between the load and the save
AtualizarNumeroNfce(numeracao, chave, ultimo_numero) ==
    [numeracao EXCEPT ![chave] = ultimo_numero]

----------------------------------------------------------------------------
(* NumberSequencer: the handlers, split where another process can run      *)
(* (between readFileSync and writeFileSync; inside one process the whole   *)
(* call is synchronous, so a process has one call in progress).            *)

SeqParado ==
    /\ pc = [p \in Procs |-> "idle"]
    /\ loc = [p \in Procs |-> Nenhuma]
    /\ emitidos = [k \in Chaves |-> {}]
    /\ ultima = Nenhuma
    /\ limpo = TRUE
    /\ soProximo = TRUE

InitSeq ==
    /\ arq \in Arquivos
    /\ arquivo = NumeracaoVazia
    /\ SeqParado

\* the number of the advance that completed last, when the call being
\* started is the next call on the same key; else 0
Previa(op, k) ==
    IF op = "proximo" /\ ultima.op = "avancar" /\ ultima.chave = k
    THEN ultima.numero ELSE 0

\* a failed read of a store that holds nothing yields the same {} as a
\* successful one, so a failure is only distinguished on a store with content
Carregar(p, op, k, n, leituraOk) ==
    /\ pc[p] = "idle"
    /\ leituraOk \/ arquivo # NumeracaoVazia
    /\ pc' = [pc EXCEPT ![p] = "carregado"]
    /\ loc' = [loc EXCEPT ![p] =
                 [op |-> op, chave |-> k, numero |-> n,
                  numeracao |-> CarregarNumeracao(arquivo, leituraOk),
                  antes |-> arquivo[k],
                  previa |-> Previa(op, k)]]
    /\ limpo' = (limpo /\ leituraOk)
    /\ soProximo' = (soProximo /\ op = "proximo")
    /\ UNCHANGED <<arq, arquivo, emitidos, ultima>>

\* the call of process p returns: the file is as the save left it and the
\* process holds what it answered until its next call
Concluir(p, novo, retorno) ==
    /\ pc[p] = "carregado"
    /\ arquivo' = novo
    /\ pc' = [pc EXCEPT ![p] = "idle"]
    /\ loc' = [loc EXCEPT ![p] = [op |-> "respondido", retorno |-> retorno]]
    /\ UNCHANGED <<arq, soProximo>>

\* POST /emitir of nfe.js without dados.numero, POST /emitir of nfce-v2.js:
\* obterProximoNumero up to carregarNumeracao
IniciarProximo(p) ==
    \E k \in Chaves, leituraOk \in BOOLEAN :
        /\ Ultimo(arquivo[k]) < MaxNumero
        /\ Carregar(p, "proximo", k, 0, leituraOk)

\* obterProximoNumero from the increment to the return
ConcluirProximo(p) ==
    \E escritaOk \in BOOLEAN :
        /\ loc[p].op = "proximo"
        /\ LET l == loc[p]
               r == ObterProximoNumero(l.numeracao, l.chave)
           IN  /\ Concluir(p, SalvarNumeracao(arquivo, r.numeracao, escritaOk), r.proximo)
               /\ limpo' = (limpo /\ escritaOk)
               /\ emitidos' = IF soProximo /\ limpo'
                              THEN [emitidos EXCEPT ![l.chave] = @ \cup {r.proximo}]
                              ELSE [k \in Chaves |-> {}]
        /\ ultima' = Nenhuma

\* POST /emitir of nfe.js with dados.numero, POST /api/nfe/atualizar-numero:
\* atualizarUltimoNumero up to carregarNumeracao
IniciarAvancar(p) ==
    \E k \in Chaves, n \in 1..MaxNumero, leituraOk \in BOOLEAN :
        /\ arq = "nfe"
        /\ Carregar(p, "avancar", k, n, leituraOk)

\* atualizarUltimoNumero from the comparison to the return
ConcluirAvancar(p) ==
    \E escritaOk \in BOOLEAN :
        /\ loc[p].op = "avancar"
        /\ LET l == loc[p]
               r == AtualizarUltimoNumero(l.numeracao, l.chave, l.numero)
           IN  /\ Concluir(p, IF r.salvar
                              THEN SalvarNumeracao(arquivo, r.numeracao, escritaOk)
                              ELSE arquivo, 0)
               /\ limpo' = (limpo /\ (escritaOk \/ ~r.salvar))
               /\ ultima' = IF l.numero > Ultimo(l.antes)
                            THEN [op |-> "avancar", chave |-> l.chave, numero |-> l.numero]
                            ELSE Nenhuma
        /\ UNCHANGED emitidos

\* POST /api/nfce/v2/atualizar-numero up to carregarNumeracao
IniciarDefinir(p) ==
    \E k \in Chaves, n \in 1..MaxNumero, leituraOk \in BOOLEAN :
        /\ arq = "nfce"
        /\ Carregar(p, "definir", k, n, leituraOk)

\* POST /api/nfce/v2/atualizar-numero from the assignment to the response
ConcluirDefinir(p) ==
    \E escritaOk \in BOOLEAN :
        /\ loc[p].op = "definir"
        /\ LET l == loc[p]
           IN  Concluir(p, SalvarNumeracao(arquivo,
                               AtualizarNumeroNfce(l.numeracao, l.chave, l.numero),
                               escritaOk), 0)
        /\ limpo' = (limpo /\ escritaOk)
        /\ ultima' = Nenhuma
        /\ UNCHANGED emitidos

\* the process exits (SIGTERM/SIGINT handlers of server.js, a crash) and is
\* started again: its memory is lost, the file stays
Reiniciar(p) ==
    /\ loc[p] # Nenhuma
    /\ pc' = [pc EXCEPT ![p] = "idle"]
    /\ loc' = [loc EXCEPT ![p] = Nenhuma]
    /\ UNCHANGED <<arq, arquivo, emitidos, ultima, limpo, soProximo>>

\* no pure call under study
PuroParado == entrada = Nenhuma /\ saida = Nenhuma

\* no emission request under study
EmiParado ==
    /\ pedido = Nenhuma
    /\ fase = "parado"
    /\ etapas = <<>>
    /\ doc = Nenhuma
    /\ posts = 0
    /\ resposta = Nenhuma

\* the server's credential plays no part
SrvParado == certServidor = "ausente" /\ cachedHttpsAgent = "null"

Init == InitSeq /\ PuroParado /\ EmiParado /\ SrvParado

Next ==
    \E p \in Procs :
        \/ IniciarProximo(p) /\ UNCHANGED <<puroVars, emiVars, srvVars>>
        \/ ConcluirProximo(p) /\ UNCHANGED <<puroVars, emiVars, srvVars>>
        \/ IniciarAvancar(p) /\ UNCHANGED <<puroVars, emiVars, srvVars>>
        \/ ConcluirAvancar(p) /\ UNCHANGED <<puroVars, emiVars, srvVars>>
        \/ IniciarDefinir(p) /\ UNCHANGED <<puroVars, emiVars, srvVars>>
        \/ ConcluirDefinir(p) /\ UNCHANGED <<puroVars, emiVars, srvVars>>
        \/ Reiniciar(p) /\ UNCHANGED <<puroVars, emiVars, srvVars>>

Spec == Init /\ [][Next]_vars

----------------------------------------------------------------------------
(* NumberSequencer: claims *)

\* process p returns from a call of kind op in this step
Retorna(p, op) ==
    /\ pc[p] = "carregado"
    /\ loc[p].op = op
    /\ loc'[p].op = "respondido"

\* C1: while only obterProximoNumero calls are made on a fresh store and no
\* file access fails, the N-th call to return on a key returns a number that
\* was not handed out before and is the successor of the N-1 handed out, so
\* the returned set is exactly {1..N} (start = 0), whichever processes the
\* callers run in.
C1_ProximoSemRepetirNemPular ==
    [][\A p \in Procs :
          (Retorna(p, "proximo") /\ soProximo /\ limpo')
              => /\ loc'[p].retorno \notin emitidos[loc[p].chave]
                 /\ loc'[p].retorno = Cardinality(emitidos[loc[p].chave]) + 1]_vars

\* C2: a returning obterProximoNumero call returns c+1, where c is the
\* counter persisted when it was called (0 when there was none), and leaves
\* exactly the returned value in the store.
C2_ProximoRetornaOPersistido ==
    [][\A p \in Procs :
          Retorna(p, "proximo")
              => /\ loc'[p].retorno = Ultimo(loc[p].antes) + 1
                 /\ arquivo'[loc[p].chave] = loc'[p].retorno]_vars

\* C3: no call lowers a persisted counter. Stated for the calls that write
\* over the content they read, in behaviours without any failed file access,
\* so that neither an I/O error nor a write of another process in between is
\* involved.
C3_ContadorNuncaDiminui ==
    [][\A p \in Procs :
          (/\ pc[p] = "carregado"
           /\ loc'[p].op = "respondido"
           /\ loc[p].numeracao = arquivo
           /\ limpo')
              => \A k \in Chaves : Ultimo(arquivo'[k]) >= Ultimo(arquivo[k])]_vars

\* C4: atualizarUltimoNumero(k, n) leaves n in the store when n is greater
\* than the counter persisted when it was called and leaves the file as it
\* is otherwise; the obterProximoNumero call on k that is made next after an
\* advance that raised the counter to n returns n+1.
C4_AvancarMonotonico ==
    [][\A p \in Procs :
          /\ Retorna(p, "avancar")
                => IF loc[p].numero > Ultimo(loc[p].antes)
                   THEN arquivo'[loc[p].chave] = loc[p].numero
                   ELSE arquivo' = arquivo
          /\ (Retorna(p, "proximo") /\ loc[p].previa > 0)
                => loc'[p].retorno = loc[p].previa + 1]_vars

\* C5: a returning obterProximoNumero or atualizarUltimoNumero call on one
\* key leaves the persisted counter of every other key as it was, also when
\* the call could not read the file.
C5_OutrasChavesIntactas ==
    [][\A p \in Procs :
          (Retorna(p, "proximo") \/ Retorna(p, "avancar"))
              => \A j \in Chaves \ {loc[p].chave} : arquivo'[j] = arquivo[j]]_vars

----------------------------------------------------------------------------
(* AccessKeyGenerator (calcularDV, gerarCodigoNumerico and the access-key  *)
(* lines of montarXMLNFe / montarXMLNFCe). A string is a sequence of        *)
(* characters; a digit character is the digit itself, any other character  *)
(* is its ASCII code.                                                      *)

Digitos == 0..9

\* the characters '.', '/', '-' of a formatted CNPJ and 'N', 'F', 'e' of the Id
Ponto == 46
Barra == 47
Hifen == 45
LetrasNFe == <<78, 70, 101>>

\* String(n) for a non-negative integer n
RECURSIVE StringDe(_)
StringDe(n) == IF n < 10 THEN <<n>> ELSE StringDe(n \div 10) \o <<n % 10>>

\* s.padStart(alvo, '0'): zeros in front up to the target length, never a cut
RECURSIVE PadStart(_, _)
PadStart(s, alvo) == IF Len(s) >= alvo THEN s ELSE PadStart(<<0>> \o s, alvo)

\* s.slice(-n)
SliceFim(s, n) == IF Len(s) <= n THEN s ELSE SubSeq(s, Len(s) - n + 1, Len(s))

\* s.replace(/\D/g, '')
RECURSIVE SoDigitos(_)
SoDigitos(s) ==
    IF s = <<>> THEN <<>>
    ELSE (IF Head(s) \in Digitos THEN <<Head(s)>> ELSE <<>>) \o SoDigitos(Tail(s))

pesos == <<2, 3, 4, 5, 6, 7, 8, 9>>

\* the for loop of calcularDV, from index i (1-based) down to the first character
RECURSIVE SomaDV(_, _, _)
SomaDV(chave43, i, pesoIndex) ==
    IF i < 1 THEN 0
    ELSE chave43[i] * pesos[pesoIndex + 1] + SomaDV(chave43, i - 1, (pesoIndex + 1) % 8)

\* calcularDV with `resto < 1` in place of `resto < 2`
CalcularDV_Mut(chave43) ==
    LET resto == SomaDV(chave43, Len(chave43), 0) % 11
    IN  IF resto < 1 THEN <<0>> ELSE StringDe(11 - resto)

\* calcularDV: '0' or String(11 - resto)
CalcularDV(chave43) ==
    LET resto == SomaDV(chave43, Len(chave43), 0) % 11
    IN  IF resto < 2 THEN <<0>> ELSE StringDe(11 - resto)

\* gerarCodigoNumerico without the padStart
GerarCodigoNumerico_Mut(r) == StringDe(r)

\* gerarCodigoNumerico, r = Math.floor(Math.random() * 100000000)
GerarCodigoNumerico(r) == PadStart(StringDe(r), 8)

UF_CODIGOS ==
    ("AC" :> <<1,2>>) @@ ("AL" :> <<2,7>>) @@ ("AP" :> <<1,6>>) @@ ("AM" :> <<1,3>>) @@
    ("BA" :> <<2,9>>) @@ ("CE" :> <<2,3>>) @@ ("DF" :> <<5,3>>) @@ ("ES" :> <<3,2>>) @@
    ("GO" :> <<5,2>>) @@ ("MA" :> <<2,1>>) @@ ("MT" :> <<5,1>>) @@ ("MS" :> <<5,0>>) @@
    ("MG" :> <<3,1>>) @@ ("PA" :> <<1,5>>) @@ ("PB" :> <<2,5>>) @@ ("PR" :> <<4,1>>) @@
    ("PE" :> <<2,6>>) @@ ("PI" :> <<2,2>>) @@ ("RJ" :> <<3,3>>) @@ ("RN" :> <<2,4>>) @@
    ("RS" :> <<4,3>>) @@ ("RO" :> <<1,1>>) @@ ("RR" :> <<1,4>>) @@ ("SC" :> <<4,2>>) @@
    ("SP" :> <<3,5>>) @@ ("SE" :> <<2,8>>) @@ ("TO" :> <<1,7>>)

\* the lower-case spellings among the region inputs, with their upper case
Minusculas ==
    ("ms" :> "MS") @@ ("sp" :> "SP") @@ ("rj" :> "RJ") @@ ("ma" :> "MA") @@ ("xx" :> "XX")

\* s.toUpperCase()
ToUpperCase(s) == IF s \in DOMAIN Minusculas THEN Minusculas[s] ELSE s

\* UF_CODIGOS[uf] || padrao
CodigoUF(uf, padrao) == IF uf \in DOMAIN UF_CODIGOS THEN UF_CODIGOS[uf] ELSE padrao

\* the access-key lines shared by montarXMLNFe and montarXMLNFCe:
\* ano = getFullYear(), mes0 = getMonth() of the date the assembler uses
ChaveDeAcesso(cUF, ano, mes0, cnpjStr, mod, serie, numero, r) ==
    LET AAMM     == SliceFim(StringDe(ano), 2) \o PadStart(StringDe(mes0 + 1), 2)
        cnpj     == SoDigitos(cnpjStr)
        serieStr == PadStart(StringDe(IF serie = 0 THEN 1 ELSE serie), 3)
        nNF      == PadStart(StringDe(numero), 9)
        tpEmis   == <<1>>
        cNF      == GerarCodigoNumerico(r)
        chave43  == cUF \o AAMM \o cnpj \o mod \o serieStr \o nNF \o tpEmis \o cNF
        cDV      == CalcularDV(chave43)
    IN  [chaveAcesso |-> chave43 \o cDV, cNF |-> cNF, cDV |-> cDV, cUF |-> cUF,
         Id |-> LetrasNFe \o chave43 \o cDV]

\* montarXMLNFe: cUF = UF_CODIGOS[uf?.toUpperCase()] || '50', mod = '55'
MontarXMLNFe(dados) ==
    ChaveDeAcesso(CodigoUF(ToUpperCase(dados.uf), <<5,0>>), dados.ano, dados.mes0,
                  dados.cnpj, <<5,5>>, dados.serie, dados.numero, dados.r)

\* montarXMLNFCe: ufUpper = (uf || 'MS').toUpperCase(), mod = '65'
MontarXMLNFCe(dados) ==
    ChaveDeAcesso(CodigoUF(ToUpperCase(IF dados.uf = "undefined" THEN "MS" ELSE dados.uf), <<5,0>>),
                  dados.ano, dados.mes0,
                  dados.cnpj, <<6,5>>, dados.serie, dados.numero, dados.r)

----------------------------------------------------------------------------
(* AccessKeyGenerator: the calls under study *)

\* 43-digit strings: one non-zero digit d at position j, and d repeated
UmDigito(j, d) == [i \in 1..43 |-> IF i = j THEN d ELSE 0]
Repetido(d) == [i \in 1..43 |-> d]

Chaves43 ==
    {UmDigito(j, d) : j \in 1..43, d \in 1..9} \cup {Repetido(d) : d \in Digitos}

\* an issuer tax id, bare and as 11.222.333/0001-81
CnpjDigitos == <<1,1,2,2,2,3,3,3,0,0,0,1,8,1>>
CnpjFormatado ==
    <<1,1,Ponto,2,2,2,Ponto,3,3,3,Barra,0,0,0,1,Hifen,8,1>>

\* sampled arguments of the assemblers; serie 0 stands for an absent serie;
\* numero 1000000000 and serie 1000 lie outside the schema's ranges
EntradasChave ==
    [tipo : {"nfe", "nfce"},
     uf : {"MS", "sp", "XX", "undefined"},
     ano : {2025, 2030},
     mes0 : {0, 8, 11},
     cnpj : {CnpjDigitos, CnpjFormatado},
     serie : {0, 1, 12, 999, 1000},
     numero : {1, 123456, 999999999, 1000000000},
     r : {0, 7, 12345678, 99999999}]

InitChave ==
    /\ InitSeq
    /\ arq = "nfe"
    /\ entrada \in EntradasChave \cup [tipo : {"dv"}, chave43 : Chaves43]
    /\ saida = Nenhuma
    /\ EmiParado
    /\ SrvParado

\* a call of calcularDV
ChamarCalcularDV ==
    /\ saida = Nenhuma
    /\ entrada.tipo = "dv"
    /\ saida' = [tipo |-> "dv", cDV |-> CalcularDV(entrada.chave43)]
    /\ UNCHANGED <<entrada, seqVars, emiVars, srvVars>>

\* the access key of a call of montarXMLNFe (nfe.js)
ChamarMontarXMLNFe ==
    /\ saida = Nenhuma
    /\ entrada.tipo = "nfe"
    /\ saida' = [tipo |-> "nfe"] @@ MontarXMLNFe(entrada)
    /\ UNCHANGED <<entrada, seqVars, emiVars, srvVars>>

\* the access key of a call of montarXMLNFCe (nfce-v2.js)
ChamarMontarXMLNFCe ==
    /\ saida = Nenhuma
    /\ entrada.tipo = "nfce"
    /\ saida' = [tipo |-> "nfce"] @@ MontarXMLNFCe(entrada)
    /\ UNCHANGED <<entrada, seqVars, emiVars, srvVars>>

NextChave ==
    \/ ChamarCalcularDV
    \/ ChamarMontarXMLNFe
    \/ ChamarMontarXMLNFCe

SpecChave == InitChave /\ [][NextChave]_vars

----------------------------------------------------------------------------
(* AccessKeyGenerator: claims *)

\* the weight of the i-th character from the left of a 43-character string:
\* 2 for the rightmost, then 3, ..., 9, 2, ... towards the left
PesoDaPosicao(i) == 2 + ((43 - i) % 8)

RECURSIVE SomaMod11(_, _)
SomaMod11(s, i) == IF i > 43 THEN 0 ELSE s[i] * PesoDaPosicao(i) + SomaMod11(s, i + 1)

\* the mod-11 check digit of a 43-digit string
DigitoMod11(s) ==
    LET resto == SomaMod11(s, 1) % 11
    IN  IF resto < 2 THEN 0 ELSE 11 - resto

\* the number written by a string of digits
RECURSIVE ValorDe(_)
ValorDe(s) == IF s = <<>> THEN 0 ELSE 10 * ValorDe(SubSeq(s, 1, Len(s) - 1)) + s[Len(s)]

\* C6: for a string of 43 decimal digits calcularDV returns one character,
\* a digit 0..9, which is the mod-11 check digit with weights 2..9 cycling
\* from the rightmost digit: 0 when the remainder is below 2, else 11 minus
\* the remainder.
C6_CalcularDVMod11 ==
    (saida # Nenhuma /\ saida.tipo = "dv")
        => /\ Len(saida.cDV) = 1
           /\ saida.cDV[1] \in Digitos
           /\ saida.cDV[1] = DigitoMod11(entrada.chave43)

\* calcularDV has returned for a string whose weighted sum leaves remainder 1
C6_Witness ==
    /\ saida # Nenhuma
    /\ saida.tipo = "dv"
    /\ SomaMod11(entrada.chave43, 1) % 11 = 1
    /\ saida.cDV = <<0>>

\* C7: for a 14-digit issuer tax id, a series in 1..999 and a number in
\* 1..999999999 the access key of both assemblers is 44 decimal digits laid
\* out as region code (2), year/month (4), tax id (14), model (2), series (3),
\* number (9), emission type (1), nonce (8), check digit (1), and the Id
\* attribute is 'NFe' followed by the key.
C7_ChaveDeAcesso44 ==
    (/\ saida # Nenhuma
     /\ saida.tipo \in {"nfe", "nfce"}
     /\ entrada.serie \in 1..999
     /\ entrada.numero \in 1..999999999)
        => LET c == saida.chaveAcesso
               e == entrada
           IN  /\ Len(c) = 44
               /\ \A i \in 1..Len(c) : c[i] \in Digitos
               /\ ValorDe(SubSeq(c, 3, 4)) = e.ano % 100
               /\ ValorDe(SubSeq(c, 5, 6)) = e.mes0 + 1
               /\ SubSeq(c, 7, 20) = CnpjDigitos
               /\ SubSeq(c, 21, 22) = (IF e.tipo = "nfe" THEN <<5,5>> ELSE <<6,5>>)
               /\ ValorDe(SubSeq(c, 23, 25)) = e.serie
               /\ ValorDe(SubSeq(c, 26, 34)) = e.numero
               /\ c[35] = 1
               /\ ValorDe(SubSeq(c, 36, 43)) = e.r
               /\ SubSeq(c, 36, 43) = saida.cNF
               /\ SubSeq(c, 1, 2) = saida.cUF
               /\ ToUpperCase(e.uf) \in DOMAIN UF_CODIGOS
                     => SubSeq(c, 1, 2) = UF_CODIGOS[ToUpperCase(e.uf)]
               /\ c[44] = DigitoMod11(SubSeq(c, 1, 43))
               /\ saida.Id = LetrasNFe \o c

\* an assembler has built the key of the largest series and number with a
\* nonce that needs padding
C7_Witness ==
    /\ saida # Nenhuma
    /\ saida.tipo \in {"nfe", "nfce"}
    /\ entrada.serie = 999
    /\ entrada.numero = 999999999
    /\ entrada.r = 7
    /\ entrada.cnpj = CnpjFormatado
    /\ Len(saida.chaveAcesso) = 44

----------------------------------------------------------------------------
(* JurisdictionRouter (utils/sefaz-config.js). A URL is named by the table *)
(* it stands in, its service and its environment.                          *)

SEFAZ_PROPRIA == {"AM", "BA", "GO", "MG", "MS", "MT", "PE", "PR", "RS", "SP"}

SVAN_ESTADOS == {"MA", "PA", "PI"}

SVRS_ESTADOS == {"AC", "AL", "AP", "CE", "DF", "ES", "PB", "RJ", "RN", "RO", "RR", "SC", "SE", "TO"}

ServicosBasicos == {"NfeStatusServico", "NfeAutorizacao", "NfeConsultaProtocolo"}

\* SEFAZ_URLS: the services each table has an entry for
SEFAZ_URLS ==
    [t \in SEFAZ_PROPRIA \cup {"SVAN", "SVRS"} |->
        IF t = "MS" THEN ServicosBasicos \cup {"RecepcaoEvento", "NfeInutilizacao"}
        ELSE ServicosBasicos]

\* the value of a missing property
Undefined == [tabela |-> "undefined"]

\* SEFAZ_URLS[tabela][servico]: the { homologacao, producao } pair, or undefined
Entrada(tabela, servico) ==
    IF tabela \in DOMAIN SEFAZ_URLS /\ servico \in SEFAZ_URLS[tabela]
    THEN [tabela |-> tabela, servico |-> servico,
          homologacao |-> <<tabela, servico, "homologacao">>,
          producao |-> <<tabela, servico, "producao">>]
    ELSE Undefined

\* a || b
Ou(a, b) == IF a # Undefined THEN a ELSE b

\* getSefazUrls without the SVAN branch
GetSefazUrls_Mut(uf, servico) ==
    LET ufUpper == ToUpperCase(uf)
    IN  IF ufUpper \in SEFAZ_PROPRIA /\ ufUpper \in DOMAIN SEFAZ_URLS
        THEN Ou(Entrada(ufUpper, servico), Entrada("SVRS", servico))
        ELSE Entrada("SVRS", servico)

\* getSefazUrls
GetSefazUrls(uf, servico) ==
    LET ufUpper == ToUpperCase(uf)
    IN  IF ufUpper \in SEFAZ_PROPRIA /\ ufUpper \in DOMAIN SEFAZ_URLS
        THEN Ou(Entrada(ufUpper, servico), Entrada("SVRS", servico))
        ELSE IF ufUpper \in SVAN_ESTADOS
             THEN Entrada("SVAN", servico)
             ELSE Entrada("SVRS", servico)

\* values of a request's `ambiente` field: the numbers 1 and 2, the string
\* '1', and undefined
AmbProducao == [t |-> "number", v |-> 1]

AmbHomologacao == [t |-> "number", v |-> 2]

AmbTexto1 == [t |-> "string", v |-> 1]

AmbAusente == [t |-> "undefined", v |-> 0]

\* the thrown TypeError, in the place of a URL
TypeError == <<"TypeError", "TypeError", "TypeError">>

\* `ambiente === 1 ? urls.producao : urls.homologacao` of the sefaz.js
\* handlers: reading a property of undefined throws a TypeError
SefazUrl(urls, ambiente) ==
    IF urls = Undefined THEN TypeError
    ELSE IF ambiente = AmbProducao THEN urls.producao ELSE urls.homologacao

\* the services the handlers of sefaz.js resolve: status-servico, autorizar,
\* consultar, cancelar, inutilizar
ServicosResolvidos ==
    {"NfeStatusServico", "NfeAutorizacao", "NfeConsultaProtocolo",
     "RecepcaoEvento", "NfeInutilizacao"}

\* region inputs: the 27 regions, lower-case spellings and an unknown code
UFsDeEntrada == DOMAIN UF_CODIGOS \cup DOMAIN Minusculas \cup {"XX"}

InitRota ==
    /\ InitSeq
    /\ arq = "nfe"
    /\ entrada \in [tipo : {"rota"}, uf : UFsDeEntrada, servico : ServicosResolvidos,
                    ambiente : {AmbProducao, AmbHomologacao}]
    /\ saida = Nenhuma
    /\ EmiParado
    /\ SrvParado

\* a handler of sefaz.js resolves its endpoint
ChamarGetSefazUrls ==
    /\ saida = Nenhuma
    /\ entrada.tipo = "rota"
    /\ LET urls == GetSefazUrls(entrada.uf, entrada.servico)
       IN  saida' = [tipo |-> "rota", urls |-> urls,
                     sefazUrl |-> SefazUrl(urls, entrada.ambiente)]
    /\ UNCHANGED <<entrada, seqVars, emiVars, srvVars>>

NextRota == ChamarGetSefazUrls

SpecRota == InitRota /\ [][NextRota]_vars

----------------------------------------------------------------------------
(* JurisdictionRouter: claims *)

\* C8: a region of the region-operated set gets the entry of its own table;
\* any other region of the cluster-A set gets the entry of cluster A (SVAN);
\* every other region gets the entry of cluster B (SVRS).
C8_OrdemDeResolucao ==
    (saida # Nenhuma /\ saida.tipo = "rota")
        => LET uf == ToUpperCase(entrada.uf)
           IN  saida.urls =
                 IF uf \in SEFAZ_PROPRIA THEN Entrada(uf, entrada.servico)
                 ELSE IF uf \in SVAN_ESTADOS THEN Entrada("SVAN", entrada.servico)
                 ELSE Entrada("SVRS", entrada.servico)

\* a region of cluster A, given in lower case, has been resolved to a URL
C8_Witness ==
    /\ saida # Nenhuma
    /\ saida.tipo = "rota"
    /\ entrada.uf = "ma"
    /\ saida.urls # Undefined
    /\ saida.urls.tabela = "SVAN"

\* C9: for a region in neither the region-operated nor the cluster-A set,
\* every service the handlers resolve yields a cluster-B pair with a
\* production and a staging URL.
C9_DemaisRegioesEmSVRS ==
    (/\ saida # Nenhuma
     /\ saida.tipo = "rota"
     /\ ToUpperCase(entrada.uf) \notin SEFAZ_PROPRIA \cup SVAN_ESTADOS)
        => /\ saida.urls # Undefined
           /\ saida.urls.tabela = "SVRS"
           /\ saida.urls.servico = entrada.servico
           /\ saida.sefazUrl = <<"SVRS", entrada.servico,
                                 IF entrada.ambiente = AmbProducao
                                 THEN "producao" ELSE "homologacao">>

----------------------------------------------------------------------------
(* Emission pipeline: POST /emitir of routes/nfe.js (invoices, model 55)   *)
(* with its internal call of POST /autorizar of routes/sefaz.js, and POST  *)
(* /emitir of routes/nfce-v2.js (receipts, model 65). One request is       *)
(* followed from its arrival to its answer.                                *)

\* `${cnpj}_${serie}` (nfe.js) or `nfce_v2_${cnpj}_${serie}` (nfce-v2.js) of the request
ChaveDoPedido == "A_1"

Ambientes == {AmbProducao, AmbHomologacao, AmbTexto1, AmbAusente}

UFsDoPedido == {"undefined", "MS", "sp", "RJ", "MA", "XX"}

\* request bodies: cnpj = emitente.cnpj is given, itens = itens.length,
\* certificado = certificado_base64 and certificado_senha are given,
\* csc = csc_id and csc_token are given, ufEmitente = emitente.endereco.uf
Pedidos ==
    [rota : {"nfe"}, cnpj : BOOLEAN, itens : 0..1, certificado : {FALSE}, csc : {FALSE},
     uf : UFsDoPedido, ufEmitente : {"undefined", "SP"}, ambiente : Ambientes,
     numero : {Ausente} \cup 1..MaxNumero]
    \cup
    [rota : {"nfce"}, cnpj : BOOLEAN, itens : 0..1, certificado : BOOLEAN, csc : BOOLEAN,
     uf : UFsDoPedido, ufEmitente : {"undefined"}, ambiente : Ambientes,
     numero : {Ausente}]

\* replies of the authority to an authorization: the batch-level cStat, and
\* the cStat inside the protNFe block when there is one; the first is a
\* reply with no cStat tag
RespostasSefaz ==
    {[cStat |-> Ausente, prot |-> Ausente]}
    \cup [cStat : {104, 225}, prot : {Ausente, 100, 539}]

\* axios rejects: timeout, transport error or HTTP error status
FalhaDeRede == [cStat |-> Ausente, prot |-> -2]

\* a tpAmb that takes the text '1' for the number 1 (ambiente == 1)
TpAmb_Mut(ambiente) == IF ambiente.v = 1 THEN 1 ELSE 2

\* `ambiente === 1 ? '1' : '2'`
TpAmb(ambiente) == IF ambiente = AmbProducao THEN 1 ELSE 2

\* a || b on the region strings
UfOu(a, b) == IF a # "undefined" THEN a ELSE b

\* one element of a reply's XML text: <tag>v</tag>; "protNFe" and
\* "/protNFe" open and close the protocol block
Tag(nome, valor) == [tag |-> nome, v |-> valor]

\* the XML text of a reply, in the order of the retEnviNFe schema: the
\* batch's cStat and xMotivo, then the protNFe block with the document's
\* nProt, cStat and xMotivo; a reason text is named by its origin and status
XmlDe(r) ==
    (IF r.cStat = Ausente THEN <<>>
     ELSE <<Tag("cStat", r.cStat), Tag("xMotivo", <<"lote", r.cStat>>)>>)
    \o
    (IF r.prot = Ausente THEN <<>>
     ELSE <<Tag("protNFe", 0), Tag("nProt", 1), Tag("cStat", r.prot),
            Tag("xMotivo", <<"protNFe", r.prot>>), Tag("/protNFe", 0)>>)

\* the positions of the elements `tag` in an XML text
Posicoes(xml, tag) == {i \in 1..Len(xml) : xml[i].tag = tag}

Menor(S) == CHOOSE i \in S : \A j \in S : i <= j

\* xml.match(/<tag>(...)<\/tag>/): the content of the first match, or
\* `senao` when there is none
PrimeiraTag(xml, tag, senao) ==
    IF Posicoes(xml, tag) = {} THEN senao ELSE xml[Menor(Posicoes(xml, tag))].v

\* xmlResponse.match(/<protNFe[^>]*>([\s\S]*?)<\/protNFe>/): what stands
\* between the first <protNFe> and the first </protNFe> after it, or null
BlocoProtNFe(xml) ==
    LET abre == Posicoes(xml, "protNFe")
        a == Menor(abre)
        fecha == {i \in Posicoes(xml, "/protNFe") : i > a}
    IN  IF abre = {} \/ fecha = {} THEN <<>>
        ELSE SubSeq(xml, a + 1, Menor(fecha) - 1)

\* the null of a protNFe that did not match
SemProtNFe == <<>>

\* parseAutorizacaoResponse of sefaz.js: the first <cStat> and <xMotivo> of
\* the reply and the protNFe content
ParseAutorizacaoResponse(xmlResponse) ==
    [cStat |-> PrimeiraTag(xmlResponse, "cStat", 0),
     xMotivo |-> PrimeiraTag(xmlResponse, "xMotivo", <<"Resposta invalida", 0>>),
     nProt |-> PrimeiraTag(xmlResponse, "nProt", Ausente),
     protNFe |-> BlocoProtNFe(xmlResponse),
     xmlResponse |-> xmlResponse]

\* parseAutorizacaoResponse of nfce-v2.js: getTag takes the first match in
\* the whole reply
ParseAutorizacaoNfce(xmlResponse) ==
    [cStat |-> PrimeiraTag(xmlResponse, "cStat", 0),
     xMotivo |-> PrimeiraTag(xmlResponse, "xMotivo", <<"", 0>>),
     nProt |-> PrimeiraTag(xmlResponse, "nProt", Ausente)]

\* the result of POST /emitir as it would be without the protNFe extraction
ExtrairDoProtNFe_Mut(result) ==
    [cStat |-> result.cStat, xMotivo |-> result.xMotivo]

\* POST /emitir of nfe.js: the status of the document taken from protNFe
\* when the batch status is 104
ExtrairDoProtNFe(result) ==
    IF result.cStat = 104 /\ result.protNFe # SemProtNFe
    THEN [cStat |-> PrimeiraTag(result.protNFe, "cStat", result.cStat),
          xMotivo |-> PrimeiraTag(result.protNFe, "xMotivo", result.xMotivo)]
    ELSE [cStat |-> result.cStat, xMotivo |-> result.xMotivo]

\* POST /emitir of nfe.js: the body of res.json for an answer of /autorizar
\* with status 200
ResultadoNfe(result, numero) ==
    LET nfe == ExtrairDoProtNFe(result)
    IN  [sucesso |-> nfe.cStat = 100, cStat |-> nfe.cStat,
         xMotivo |-> nfe.xMotivo, numero |-> numero]

\* POST /emitir of nfce-v2.js: the body of res.json for a reply of the
\* authority: success when resposta.cStat === 100, else the rejection with
\* xMotivo || 'Erro na autorização'
ResultadoNfce(xmlResposta, numero) ==
    LET resp == ParseAutorizacaoNfce(xmlResposta)
    IN  [sucesso |-> resp.cStat = 100, cStat |-> resp.cStat,
         xMotivo |-> IF resp.cStat # 100 /\ resp.xMotivo = <<"", 0>>
                     THEN <<"Erro na autorizacao", 0>> ELSE resp.xMotivo,
         numero |-> numero]

\* the sequence s has the element e
Contem(s, e) == \E i \in 1..Len(s) : s[i] = e

\* a credential (PKCS#12 container with its passphrase): not given, given
\* but not extractable (wrong passphrase, damaged container), or extractable
Credenciais == {"ausente", "invalido", "valido"}

\* an XML document: the child elements of its root in document order,
\* whether the referenced element carries an Id attribute, and the elements
\* whose content the digest of its Signature covers
Xml(filhos, temId, coberto) == [filhos |-> filhos, temId |-> temId, coberto |-> coberto]

\* no document (xmlNfe not given)
XmlAusente == Xml(<<>>, FALSE, {"ausente"})

\* the document of montarXMLNFe: <NFe><infNFe Id=...>...</infNFe></NFe>
XmlNFe == Xml(<<"infNFe">>, TRUE, {})

\* a montarXMLNFCe that leaves the infNFeSupl block out
XmlNFCe_Mut == Xml(<<"infNFe">>, TRUE, {})

\* the document of montarXMLNFCe: <NFe><infNFe Id=...>...</infNFe><infNFeSupl>...</infNFeSupl></NFe>
XmlNFCe == Xml(<<"infNFe", "infNFeSupl">>, TRUE, {})

\* the element e put right before the first element ref
InserirApos_Mut(filhos, ref, e) ==
    LET i == Menor({j \in 1..Len(filhos) : filhos[j] = ref})
    IN  SubSeq(filhos, 1, i - 1) \o <<e>> \o SubSeq(filhos, i, Len(filhos))

\* the element e put right after the first element ref
InserirApos(filhos, ref, e) ==
    LET i == Menor({j \in 1..Len(filhos) : filhos[j] = ref})
    IN  SubSeq(filhos, 1, i) \o <<e>> \o SubSeq(filhos, i + 1, Len(filhos))

\* a signer that goes on with the unsigned document instead of throwing
ErroDeAssinatura_Mut(motivo) == [ok |-> TRUE, motivo |-> motivo, xml |-> XmlNFe]

\* a signer that throws
ErroDeAssinatura(motivo) == [ok |-> FALSE, motivo |-> motivo, xml |-> XmlAusente]

\* signNFeXml / signEventoXml / signInutXml of utils/nfe-signer.js for the
\* referenced element ref: the credential is extracted (loadCertificate
\* throws when it is not configured, pkcs12FromAsn1 when it cannot be
\* opened), the element and its Id are looked up, the digest is computed over
\* the element and the Signature is placed after it
SignXml(xml, ref, credencial) ==
    IF credencial # "valido" THEN ErroDeAssinatura("credencial")
    ELSE IF ~Contem(xml.filhos, ref) THEN ErroDeAssinatura("elemento")
    ELSE IF ~xml.temId THEN ErroDeAssinatura("Id")
    ELSE [ok |-> TRUE, motivo |-> "",
          xml |-> Xml(InserirApos(xml.filhos, ref, "Signature"), TRUE, {ref})]

\* signNFeXml
SignNFeXml(xml, credencial) == SignXml(xml, "infNFe", credencial)

\* assinarXML of nfce-v2.js: the credential is extracted, infNFe and its Id
\* are matched, the digest is computed over infNFe and the Signature is put
\* before </NFe>
AssinarXML(xml, credencial) ==
    IF credencial # "valido" THEN ErroDeAssinatura("credencial")
    ELSE IF ~Contem(xml.filhos, "infNFe") THEN ErroDeAssinatura("elemento")
    ELSE IF ~xml.temId THEN ErroDeAssinatura("Id")
    ELSE [ok |-> TRUE, motivo |-> "",
          xml |-> Xml(xml.filhos \o <<"Signature">>, TRUE, {"infNFe"})]

\* the credentials getHttpsAgent can extract: the one the server was started
\* with and one that replaced it later
Extraiveis == {"valido", "rotacionado"}

\* new https.Agent({cert, key, ...}) for an extracted credential
AgenteCom(credencial) ==
    IF credencial = "valido" THEN "comCertificado" ELSE "comCertificadoRotacionado"

\* a getHttpsAgent that looks at the cache only after the extraction
GetHttpsAgent_Mut(cache, credencial) ==
    IF credencial \in Extraiveis
    THEN [agente |-> AgenteCom(credencial), cache |-> AgenteCom(credencial)]
    ELSE IF cache # "null" THEN [agente |-> cache, cache |-> cache]
    ELSE [agente |-> "semCertificado", cache |-> cache]

\* getHttpsAgent of sefaz.js: the agent it returns and the cache it leaves
GetHttpsAgent(cache, credencial) ==
    IF cache # "null" THEN [agente |-> cache, cache |-> cache]
    ELSE IF credencial \in Extraiveis
         THEN [agente |-> AgenteCom(credencial), cache |-> AgenteCom(credencial)]
         ELSE [agente |-> "semCertificado", cache |-> cache]

\* the handlers' locals before the first stage
DocVazio ==
    [numero |-> Ausente, tpAmb |-> 0, cUF |-> <<>>, corpo |-> Nenhuma,
     sefazUrl |-> TypeError, interna |-> Nenhuma, esOk |-> TRUE, credencialOk |-> TRUE,
     xml |-> XmlAusente, agente |-> "nenhum", assinaturas |-> 0, rede |-> "nenhuma"]

InitEmi ==
    /\ pedido \in Pedidos
    /\ arq = (IF pedido.rota = "nfe" THEN "nfe" ELSE "nfce")
    /\ arquivo \in {NumeracaoVazia, [NumeracaoVazia EXCEPT ![ChaveDoPedido] = 1]}
    /\ SeqParado
    /\ PuroParado
    /\ fase = "recebido"
    /\ etapas = <<>>
    /\ doc = DocVazio
    /\ posts = 0
    /\ resposta = Nenhuma
    /\ certServidor \in Credenciais
    /\ cachedHttpsAgent = "null"

\* res.status(status).json(corpo), or res.json(corpo) with status 200
Responder(status, corpo) ==
    /\ fase' = "respondido"
    /\ resposta' = [status |-> status] @@ corpo

Fixos == <<arq, pc, loc, emitidos, ultima, limpo, soProximo, entrada, saida, pedido,
           certServidor>>

\* the validations of POST /emitir of nfe.js without the check of itens
ErroDeValidacaoNfe_Mut(dados) ==
    IF ~dados.cnpj THEN "Dados do emitente nao fornecidos"
    ELSE ""

\* the validations of POST /emitir of nfe.js: the error of the first check
\* that fails, or "" when all pass
ErroDeValidacaoNfe(dados) ==
    IF ~dados.cnpj THEN "Dados do emitente nao fornecidos"
    ELSE IF dados.itens = 0 THEN "Itens da NF-e nao fornecidos"
    ELSE ""

\* POST /emitir of nfe.js: the validations
NfeValidar ==
    /\ fase = "recebido"
    /\ pedido.rota = "nfe"
    /\ IF ErroDeValidacaoNfe(pedido) # ""
       THEN Responder(400, [error |-> ErroDeValidacaoNfe(pedido)])
       ELSE fase' = "validado" /\ UNCHANGED resposta
    /\ UNCHANGED <<Fixos, cachedHttpsAgent, arquivo, etapas, doc, posts>>

\* POST /emitir of nfe.js: obterProximoNumero when the request has no
\* numero, atualizarUltimoNumero otherwise
NfeNumerar ==
    /\ fase = "validado"
    /\ pedido.rota = "nfe"
    /\ \E leituraOk, escritaOk \in BOOLEAN :
        /\ leituraOk \/ arquivo # NumeracaoVazia
        /\ LET numeracao == CarregarNumeracao(arquivo, leituraOk)
               prox == ObterProximoNumero(numeracao, ChaveDoPedido)
               atu == AtualizarUltimoNumero(numeracao, ChaveDoPedido, pedido.numero)
           IN  IF pedido.numero = Ausente
               THEN /\ arquivo' = SalvarNumeracao(arquivo, prox.numeracao, escritaOk)
                    /\ doc' = [doc EXCEPT !.numero = prox.proximo,
                                          !.esOk = leituraOk /\ escritaOk]
               ELSE /\ arquivo' = IF atu.salvar
                                  THEN SalvarNumeracao(arquivo, atu.numeracao, escritaOk)
                                  ELSE arquivo
                    /\ doc' = [doc EXCEPT !.numero = pedido.numero,
                                          !.esOk = leituraOk /\ (escritaOk \/ ~atu.salvar)]
    /\ etapas' = Append(etapas, "numero")
    /\ fase' = "numerado"
    /\ UNCHANGED <<Fixos, cachedHttpsAgent, posts, resposta>>

\* POST /emitir of nfe.js: montarXMLNFe(dados) with the request's own uf and
\* ambiente fields: access key, then the document
NfeMontar ==
    /\ fase = "numerado"
    /\ pedido.rota = "nfe"
    /\ doc' = [doc EXCEPT !.cUF = CodigoUF(ToUpperCase(pedido.uf), <<5, 0>>),
                          !.tpAmb = TpAmb(pedido.ambiente),
                          !.xml = XmlNFe]
    /\ etapas' = etapas \o <<"chave", "montagem">>
    /\ fase' = "montado"
    /\ UNCHANGED <<Fixos, cachedHttpsAgent, arquivo, posts, resposta>>

\* POST /emitir of nfe.js: the internal POST to /api/sefaz/autorizar with
\* uf = dados.uf || emitente.endereco?.uf || 'MS' and ambiente = dados.ambiente || 2
NfeChamarAutorizar ==
    /\ fase = "montado"
    /\ pedido.rota = "nfe"
    /\ doc' = [doc EXCEPT !.corpo =
                 [uf |-> UfOu(pedido.uf, UfOu(pedido.ufEmitente, "MS")),
                  ambiente |-> IF pedido.ambiente = AmbAusente THEN AmbHomologacao
                               ELSE pedido.ambiente,
                  xmlNfe |-> doc.xml,
                  certificado |-> "ausente"]]
    /\ fase' = "chamou"
    /\ UNCHANGED <<Fixos, cachedHttpsAgent, arquivo, etapas, posts, resposta>>

\* what POST /autorizar answers without a reply of the authority
ErroInterno(status, motivo) == [status |-> status, cStat |-> 0, xMotivo |-> <<motivo, 0>>]

\* POST /autorizar of sefaz.js up to the POST to the authority: the xmlNfe
\* check, endpoint resolution, signNFeXml unless the XML already holds a
\* Signature (with the credential of the body when it carries one, else the
\* server's), the https agent (from the credential of the body, else
\* getHttpsAgent), and the POST
Autorizar ==
    /\ fase = "chamou"
    /\ LET corpo == doc.corpo
           ufUpper == ToUpperCase(corpo.uf)
           urls == GetSefazUrls(ufUpper, "NfeAutorizacao")
           sefazUrl == SefazUrl(urls, corpo.ambiente)
           doCorpo == corpo.certificado # "ausente"
           jaAssinado == Contem(corpo.xmlNfe.filhos, "Signature")
           assinado == IF jaAssinado THEN [ok |-> TRUE, motivo |-> "", xml |-> corpo.xmlNfe]
                       ELSE SignNFeXml(corpo.xmlNfe,
                                       IF doCorpo THEN corpo.certificado ELSE certServidor)
           ag == IF doCorpo THEN [agente |-> "comCertificado", cache |-> cachedHttpsAgent]
                 ELSE GetHttpsAgent(cachedHttpsAgent, certServidor)
           tentou == IF jaAssinado THEN 0 ELSE 1
       IN  IF corpo.xmlNfe = XmlAusente
           THEN /\ doc' = [doc EXCEPT !.interna = ErroInterno(400, "XML da NF-e nao fornecido")]
                /\ fase' = "retornou"
                /\ UNCHANGED <<etapas, posts, cachedHttpsAgent>>
           ELSE IF sefazUrl = TypeError
           THEN /\ doc' = [doc EXCEPT !.interna = ErroInterno(500, "Erro")]
                /\ fase' = "retornou"
                /\ UNCHANGED <<etapas, posts, cachedHttpsAgent>>
           ELSE IF ~assinado.ok
           THEN /\ doc' = [doc EXCEPT !.sefazUrl = sefazUrl, !.credencialOk = FALSE,
                             !.assinaturas = @ + tentou,
                             !.interna = ErroInterno(400, "Erro ao assinar XML da NF-e")]
                /\ etapas' = Append(etapas, "rota")
                /\ fase' = "retornou"
                /\ UNCHANGED <<posts, cachedHttpsAgent>>
           ELSE IF doCorpo /\ corpo.certificado # "valido"
           THEN /\ doc' = [doc EXCEPT !.sefazUrl = sefazUrl, !.credencialOk = FALSE,
                             !.interna = ErroInterno(500, "Erro")]
                /\ etapas' = Append(etapas, "rota")
                /\ fase' = "retornou"
                /\ UNCHANGED <<posts, cachedHttpsAgent>>
           ELSE /\ doc' = [doc EXCEPT !.sefazUrl = sefazUrl, !.xml = assinado.xml,
                             !.assinaturas = @ + tentou, !.agente = ag.agente]
                /\ etapas' = etapas \o (IF jaAssinado THEN <<"rota", "transmissao">>
                                        ELSE <<"rota", "assinatura", "transmissao">>)
                /\ cachedHttpsAgent' = ag.cache
                /\ posts' = posts + 1
                /\ fase' = "aguardando"
    /\ UNCHANGED <<Fixos, arquivo, resposta>>

\* POST /autorizar of sefaz.js from the reply on: parseAutorizacaoResponse
\* and res.json, or the catch with status 500
AutorizarReceber ==
    /\ fase = "aguardando"
    /\ pedido.rota \in {"nfe", "autorizar"}
    /\ \E r \in RespostasSefaz \cup {FalhaDeRede} :
         IF r = FalhaDeRede
         THEN /\ doc' = [doc EXCEPT !.interna = ErroInterno(500, "Erro"), !.rede = "falha"]
              /\ UNCHANGED etapas
         ELSE /\ doc' = [doc EXCEPT !.rede = "resposta", !.interna =
                           [status |-> 200] @@ ParseAutorizacaoResponse(XmlDe(r))]
              /\ etapas' = Append(etapas, "parse")
    /\ fase' = "retornou"
    /\ UNCHANGED <<Fixos, cachedHttpsAgent, arquivo, posts, resposta>>

\* POST /emitir of nfe.js from the answer of /autorizar on: the protNFe
\* extraction and res.json, or the catch for an error status of /autorizar
NfeConcluir ==
    /\ fase = "retornou"
    /\ pedido.rota = "nfe"
    /\ IF doc.interna.status = 200
       THEN Responder(200, ResultadoNfe(doc.interna, doc.numero))
       ELSE Responder(200, [sucesso |-> FALSE, cStat |-> doc.interna.cStat,
                            xMotivo |-> doc.interna.xMotivo, numero |-> pedido.numero])
    /\ UNCHANGED <<Fixos, cachedHttpsAgent, arquivo, etapas, doc, posts>>

\* POST /emitir of nfce-v2.js: the validations
NfceValidar ==
    /\ fase = "recebido"
    /\ pedido.rota = "nfce"
    /\ IF ~pedido.cnpj
       THEN Responder(400, [sucesso |-> FALSE, erro |-> "CNPJ do emitente e obrigatorio"])
       ELSE IF pedido.itens = 0
       THEN Responder(400, [sucesso |-> FALSE, erro |-> "Itens sao obrigatorios"])
       ELSE IF ~pedido.certificado
       THEN Responder(400, [sucesso |-> FALSE, erro |-> "Certificado digital e obrigatorio"])
       ELSE IF ~pedido.csc
       THEN Responder(400, [sucesso |-> FALSE, erro |-> "CSC e obrigatorio para NFC-e"])
       ELSE fase' = "validado" /\ UNCHANGED resposta
    /\ UNCHANGED <<Fixos, cachedHttpsAgent, arquivo, etapas, doc, posts>>

\* POST /emitir of nfce-v2.js: tpAmb and obterProximoNumero
NfceNumerar ==
    /\ fase = "validado"
    /\ pedido.rota = "nfce"
    /\ \E leituraOk, escritaOk \in BOOLEAN :
        /\ leituraOk \/ arquivo # NumeracaoVazia
        /\ LET prox == ObterProximoNumero(CarregarNumeracao(arquivo, leituraOk), ChaveDoPedido)
           IN  /\ arquivo' = SalvarNumeracao(arquivo, prox.numeracao, escritaOk)
               /\ doc' = [doc EXCEPT !.numero = prox.proximo,
                                     !.tpAmb = TpAmb(pedido.ambiente),
                                     !.esOk = leituraOk /\ escritaOk]
    /\ etapas' = Append(etapas, "numero")
    /\ fase' = "numerado"
    /\ UNCHANGED <<Fixos, cachedHttpsAgent, posts, resposta>>

\* POST /emitir of nfce-v2.js: montarXMLNFCe: access key, the blocks of the
\* document, gerarQRCode and infNFeSupl
NfceMontar ==
    /\ fase = "numerado"
    /\ pedido.rota = "nfce"
    /\ doc' = [doc EXCEPT !.cUF = CodigoUF(ToUpperCase(UfOu(pedido.uf, "MS")), <<5, 0>>),
                          !.xml = XmlNFCe]
    /\ etapas' = etapas \o <<"chave", "montagem", "qr">>
    /\ fase' = "montado"
    /\ UNCHANGED <<Fixos, cachedHttpsAgent, arquivo, posts, resposta>>

\* POST /emitir of nfce-v2.js: assinarXML with the request's credential; a
\* throw (credential not extractable) goes to the catch, status 500
NfceAssinar ==
    /\ fase = "montado"
    /\ pedido.rota = "nfce"
    /\ \E credencial \in {"invalido", "valido"} :
         LET assinado == AssinarXML(doc.xml, credencial)
         IN  IF assinado.ok
             THEN /\ doc' = [doc EXCEPT !.xml = assinado.xml, !.assinaturas = @ + 1]
                  /\ etapas' = Append(etapas, "assinatura")
                  /\ fase' = "assinado"
                  /\ UNCHANGED resposta
             ELSE /\ doc' = [doc EXCEPT !.credencialOk = FALSE, !.assinaturas = @ + 1]
                  /\ Responder(500, [sucesso |-> FALSE, erro |-> "Erro ao assinar XML"])
                  /\ UNCHANGED etapas
    /\ UNCHANGED <<Fixos, cachedHttpsAgent, arquivo, posts>>

\* POST /emitir of nfce-v2.js from the URL lookup on:
\* SEFAZ_URLS[ufUpper]?.NfceAutorizacao, criarHttpsAgent, enviarParaSEFAZ,
\* parseAutorizacaoResponse and the answer; every throw goes to the catch
NfceTransmitir ==
    /\ fase = "assinado"
    /\ LET ufUpper == ToUpperCase(UfOu(pedido.uf, "MS"))
           urlSefaz == SefazUrl(Entrada(ufUpper, "NfceAutorizacao"),
                                IF doc.tpAmb = 1 THEN AmbProducao ELSE AmbHomologacao)
       IN  IF urlSefaz = TypeError
           THEN /\ Responder(500, [sucesso |-> FALSE, erro |-> "URL NFC-e nao configurada"])
                /\ UNCHANGED <<etapas, doc, posts>>
           ELSE \E r \in RespostasSefaz \cup {FalhaDeRede} :
                  /\ doc' = [doc EXCEPT !.sefazUrl = urlSefaz, !.agente = "comCertificado",
                                        !.rede = IF r = FalhaDeRede THEN "falha" ELSE "resposta"]
                  /\ posts' = posts + 1
                  /\ IF r = FalhaDeRede
                     THEN /\ etapas' = etapas \o <<"rota", "transmissao">>
                          /\ Responder(500, [sucesso |-> FALSE, erro |-> "Erro de rede"])
                     ELSE /\ etapas' = etapas \o <<"rota", "transmissao", "parse">>
                          /\ Responder(200, ResultadoNfce(XmlDe(r), doc.numero))
    /\ UNCHANGED <<Fixos, cachedHttpsAgent, arquivo>>

NextEmi ==
    \/ NfeValidar
    \/ NfeNumerar
    \/ NfeMontar
    \/ NfeChamarAutorizar
    \/ Autorizar
    \/ AutorizarReceber
    \/ NfeConcluir
    \/ NfceValidar
    \/ NfceNumerar
    \/ NfceMontar
    \/ NfceAssinar
    \/ NfceTransmitir

SpecEmi == InitEmi /\ [][NextEmi]_vars

\* C15: an emission request without the issuer's tax id or with no items is
\* answered with a validation error in the handler's first step: no number
\* is issued, no XML is assembled, nothing is sent, and the sequence counter
\* stays as it was.
C15_ValidacaoAntesDeTudo ==
    [][(/\ fase = "recebido"
        /\ pedido.rota \in {"nfe", "nfce"}
        /\ (~pedido.cnpj \/ pedido.itens = 0))
          => /\ fase' = "respondido"
             /\ resposta'.status = 400
             /\ arquivo' = arquivo
             /\ etapas' = <<>>
             /\ doc'.xml = XmlAusente
             /\ doc'.numero = Ausente
             /\ posts' = 0]_vars

\* an invoice request with no items has been refused while the counter of
\* its key stands at 1
C15_Witness ==
    /\ fase = "respondido"
    /\ pedido.rota = "nfe"
    /\ pedido.cnpj
    /\ pedido.itens = 0
    /\ resposta.status = 400
    /\ arquivo[ChaveDoPedido] = 1
    /\ etapas = <<>>

----------------------------------------------------------------------------
(* The server: one request after the other, an emission or a direct call   *)
(* of a handler of routes/sefaz.js (status-servico, autorizar, cancelar,   *)
(* inutilizar). The server's credential and the cached agent live as long  *)
(* as the process.                                                         *)

UFsDoServico == {"undefined", "MS", "RJ"}

\* xmlNfe of a direct call of /autorizar: none, the unsigned document, one
\* whose infNFe has no Id, one without infNFe, one already signed
XmlsDeEntrada ==
    {XmlAusente, XmlNFe, Xml(<<"infNFe">>, FALSE, {}), Xml(<<"ide">>, FALSE, {}),
     Xml(<<"infNFe", "Signature">>, TRUE, {"infNFe"})}

\* request bodies of the sefaz.js handlers: completo = the required
\* parameters are given and xJust has at least 15 characters, cert = the
\* credential of certificado / senhaCertificado
PedidosServico ==
    [rota : {"status-servico"}, uf : UFsDoServico, ambiente : Ambientes,
     completo : {TRUE}, xmlNfe : {XmlAusente}, cert : {"ausente"}]
    \cup
    [rota : {"cancelar", "inutilizar"}, uf : UFsDoServico, ambiente : Ambientes,
     completo : BOOLEAN, xmlNfe : {XmlAusente}, cert : {"ausente"}]
    \cup
    [rota : {"autorizar"}, uf : UFsDoServico, ambiente : Ambientes,
     completo : {TRUE}, xmlNfe : XmlsDeEntrada, cert : Credenciais]

\* replies of the authority to a status query, an event or an invalidation:
\* the cStat of the reply (107 in service, 135 event registered, 102 range
\* invalidated, rejections), or no cStat tag
RespostasServico == {Ausente, 102, 107, 109, 135, 573}

\* the default of a destructured body field: `uf = 'SP'`, `ambiente = 2`
UfPadrao(uf, padrao) == IF uf = "undefined" THEN padrao ELSE uf

AmbPadrao(ambiente) == IF ambiente = AmbAusente THEN AmbHomologacao ELSE ambiente

\* POST /status-servico: 'producao', 1 and '1' select production
AmbienteStatus(ambienteParam) ==
    IF ambienteParam \in {AmbProducao, AmbTexto1} THEN AmbProducao ELSE AmbHomologacao

\* the service name each handler resolves
ServicoDaRota(rota) ==
    IF rota = "status-servico" THEN "NfeStatusServico"
    ELSE IF rota = "cancelar" THEN "RecepcaoEvento"
    ELSE IF rota = "inutilizar" THEN "NfeInutilizacao"
    ELSE "NfeAutorizacao"

\* the element each signer references
ElementoDaRota(rota) ==
    IF rota = "cancelar" THEN "infEvento"
    ELSE IF rota = "inutilizar" THEN "infInut"
    ELSE "infNFe"

InitServidor ==
    /\ arq \in Arquivos
    /\ arquivo = NumeracaoVazia
    /\ SeqParado
    /\ PuroParado
    /\ EmiParado
    /\ certServidor \in Credenciais
    /\ cachedHttpsAgent = "null"

\* the handler has answered and returns: its locals are gone
Encerrar ==
    /\ fase = "respondido"
    /\ fase' = "parado"
    /\ pedido' = Nenhuma
    /\ etapas' = <<>>
    /\ doc' = Nenhuma
    /\ posts' = 0
    /\ resposta' = Nenhuma
    /\ UNCHANGED <<arq, arquivo, pc, loc, emitidos, ultima, limpo, soProximo, entrada, saida,
                   srvVars>>

\* a request arrives; /autorizar starts with its body as POST /emitir of
\* nfe.js would send it
ReceberPedido ==
    /\ fase = "parado"
    /\ \E p \in Pedidos \cup PedidosServico :
        /\ p.rota \in {"nfe", "nfce"} => (p.rota = arq /\ Ultimo(arquivo[ChaveDoPedido]) < MaxNumero)
        /\ pedido' = p
        /\ fase' = IF p.rota = "autorizar" THEN "chamou" ELSE "recebido"
        /\ doc' = IF p.rota = "autorizar"
                  THEN [DocVazio EXCEPT !.corpo =
                          [uf |-> UfPadrao(p.uf, "SP"), ambiente |-> AmbPadrao(p.ambiente),
                           xmlNfe |-> p.xmlNfe, certificado |-> p.cert]]
                  ELSE DocVazio
    /\ etapas' = <<>>
    /\ posts' = 0
    /\ resposta' = Nenhuma
    /\ UNCHANGED <<arq, arquivo, pc, loc, emitidos, ultima, limpo, soProximo, entrada, saida,
                   srvVars>>

\* the body of the answer in the catch of a sefaz.js handler
RespostaDeErro_Mut == [cStat |-> 0, xMotivo |-> <<"Erro", 0>>, erro |-> FALSE]

\* the body of the answer in the catch of a sefaz.js handler
RespostaDeErro == [cStat |-> 0, xMotivo |-> <<"Erro", 0>>, erro |-> TRUE]

\* POST /autorizar called directly answers its caller
AutorizarResponder ==
    /\ fase = "retornou"
    /\ pedido.rota = "autorizar"
    /\ Responder(doc.interna.status,
                 [cStat |-> doc.interna.cStat, xMotivo |-> doc.interna.xMotivo,
                  erro |-> doc.interna.status # 200])
    /\ UNCHANGED <<Fixos, cachedHttpsAgent, arquivo, etapas, doc, posts>>

\* POST /status-servico up to the POST to the authority: endpoint
\* resolution, getHttpsAgent, POST
StatusServico ==
    /\ fase = "recebido"
    /\ pedido.rota = "status-servico"
    /\ LET ufUpper == ToUpperCase(UfPadrao(pedido.uf, "SP"))
           ambiente == AmbienteStatus(pedido.ambiente)
           sefazUrl == SefazUrl(GetSefazUrls(ufUpper, "NfeStatusServico"), ambiente)
           ag == GetHttpsAgent(cachedHttpsAgent, certServidor)
       IN  IF sefazUrl = TypeError
           THEN /\ Responder(200, RespostaDeErro)
                /\ UNCHANGED <<etapas, doc, posts, cachedHttpsAgent>>
           ELSE /\ doc' = [doc EXCEPT !.sefazUrl = sefazUrl, !.agente = ag.agente]
                /\ etapas' = etapas \o <<"rota", "transmissao">>
                /\ cachedHttpsAgent' = ag.cache
                /\ posts' = posts + 1
                /\ fase' = "aguardando"
                /\ UNCHANGED resposta
    /\ UNCHANGED <<Fixos, arquivo>>

\* POST /cancelar and POST /inutilizar up to the POST to the authority: the
\* parameter checks, endpoint resolution, signEventoXml / signInutXml with
\* the server's credential, getHttpsAgent, POST
EventoAssinarEnviar(rota) ==
    /\ LET ufUpper == ToUpperCase(UfPadrao(pedido.uf, "MS"))
           sefazUrl == SefazUrl(GetSefazUrls(ufUpper, ServicoDaRota(rota)),
                                AmbPadrao(pedido.ambiente))
           assinado == SignXml(Xml(<<ElementoDaRota(rota)>>, TRUE, {}),
                               ElementoDaRota(rota), certServidor)
           ag == GetHttpsAgent(cachedHttpsAgent, certServidor)
       IN  IF ~pedido.completo
           THEN /\ Responder(400, [cStat |-> 0, xMotivo |-> <<"Parametros obrigatorios", 0>>,
                                   erro |-> TRUE])
                /\ UNCHANGED <<etapas, doc, posts, cachedHttpsAgent>>
           ELSE IF sefazUrl = TypeError
           THEN /\ Responder(500, RespostaDeErro)
                /\ UNCHANGED <<etapas, doc, posts, cachedHttpsAgent>>
           ELSE IF ~assinado.ok
           THEN /\ Responder(400, [cStat |-> 0, xMotivo |-> <<"Erro ao assinar", 0>>,
                                   erro |-> TRUE])
                /\ doc' = [doc EXCEPT !.sefazUrl = sefazUrl, !.credencialOk = FALSE,
                                      !.assinaturas = @ + 1]
                /\ etapas' = Append(etapas, "rota")
                /\ UNCHANGED <<posts, cachedHttpsAgent>>
           ELSE /\ doc' = [doc EXCEPT !.sefazUrl = sefazUrl, !.xml = assinado.xml,
                                      !.assinaturas = @ + 1, !.agente = ag.agente]
                /\ etapas' = etapas \o <<"rota", "assinatura", "transmissao">>
                /\ cachedHttpsAgent' = ag.cache
                /\ posts' = posts + 1
                /\ fase' = "aguardando"
                /\ UNCHANGED resposta
    /\ UNCHANGED <<Fixos, arquivo>>

\* POST /cancelar
Cancelar ==
    /\ fase = "recebido"
    /\ pedido.rota = "cancelar"
    /\ EventoAssinarEnviar("cancelar")

\* POST /inutilizar
Inutilizar ==
    /\ fase = "recebido"
    /\ pedido.rota = "inutilizar"
    /\ EventoAssinarEnviar("inutilizar")

\* the three handlers from the reply on: the parse and res.json, or the
\* catch (res.json with erro for /status-servico, status 500 for the others)
ServicoReceber ==
    /\ fase = "aguardando"
    /\ pedido.rota \in {"status-servico", "cancelar", "inutilizar"}
    /\ \E c \in RespostasServico \cup {FalhaDeRede.prot} :
         IF c = FalhaDeRede.prot
         THEN /\ Responder(IF pedido.rota = "status-servico" THEN 200 ELSE 500,
                           RespostaDeErro)
              /\ doc' = [doc EXCEPT !.rede = "falha"]
              /\ UNCHANGED etapas
         ELSE /\ Responder(200, [cStat |-> IF c = Ausente THEN 0 ELSE c,
                                 xMotivo |-> IF c = Ausente THEN <<"Resposta invalida", 0>>
                                             ELSE <<"lote", c>>,
                                 erro |-> FALSE])
              /\ doc' = [doc EXCEPT !.rede = "resposta"]
              /\ etapas' = Append(etapas, "parse")
    /\ UNCHANGED <<Fixos, cachedHttpsAgent, arquivo, posts>>

NextServidor ==
    \/ ReceberPedido
    \/ Encerrar
    \/ NextEmi
    \/ AutorizarResponder
    \/ StatusServico
    \/ Cancelar
    \/ Inutilizar
    \/ ServicoReceber

SpecServidor == InitServidor /\ [][NextServidor]_vars

----------------------------------------------------------------------------
(* Emission pipeline: claims *)

\* the request passes the validations of its handler
PedidoValido ==
    /\ pedido.cnpj
    /\ pedido.itens > 0
    /\ pedido.rota = "nfce" => (pedido.certificado /\ pedido.csc)

\* the numbering file was read and written and the credential was extracted
SemFalhaDeAmbiente == doc.esOk /\ doc.credencialOk

\* the stages in the order of the control flow
OrdemDasEtapas(rota) ==
    IF rota = "nfe"
    THEN <<"numero", "chave", "montagem", "assinatura", "rota", "transmissao", "parse">>
    ELSE <<"numero", "chave", "montagem", "qr", "assinatura", "rota", "transmissao", "parse">>

EhPrefixo(s, t) == Len(s) <= Len(t) /\ s = SubSeq(t, 1, Len(s))

\* C10: every valid emission request passes the stages in the order number
\* issue, access key, assembly, QR code (receipts only), signing, endpoint
\* resolution, transmission, response parsing, and is not answered before
\* it has reached the transmission stage.
C10_EtapasEmOrdem ==
    (fase # "parado" /\ PedidoValido /\ SemFalhaDeAmbiente)
        => /\ EhPrefixo(etapas, OrdemDasEtapas(pedido.rota))
           /\ fase = "respondido" => Contem(etapas, "transmissao")

\* the invoice handler has answered after /autorizar relayed the reply r
NfeRespondeu(r) ==
    /\ fase = "respondido"
    /\ pedido.rota = "nfe"
    /\ doc.interna # Nenhuma
    /\ doc.interna.status = 200
    /\ doc.interna.xmlResponse = XmlDe(r)

----------------------------------------------------------------------------
(* ResponseParser: what the two /emitir handlers report for a reply of the *)
(* authority, as functions of the reply.                                   *)

\* sampled replies: batch status absent (no cStat tag), 103 batch received,
\* 104 batch processed, 100, 107, and rejections; with and without a protocol
\* block
RespostasDeEntrada ==
    [cStat : {Ausente, 100, 103, 104, 107, 225, 539},
     prot : {Ausente, 100, 110, 204, 539}]

InitResposta ==
    /\ InitSeq
    /\ arq = "nfe"
    /\ entrada \in [tipo : {"respostaNfe", "respostaNfce"}, r : RespostasDeEntrada,
                    numero : 1..MaxNumero]
    /\ saida = Nenhuma
    /\ EmiParado
    /\ SrvParado

\* POST /autorizar parses the reply and POST /emitir of nfe.js reports it
ChamarResultadoNfe ==
    /\ saida = Nenhuma
    /\ entrada.tipo = "respostaNfe"
    /\ saida' = [tipo |-> "respostaNfe"]
                @@ ResultadoNfe(ParseAutorizacaoResponse(XmlDe(entrada.r)), entrada.numero)
    /\ UNCHANGED <<entrada, seqVars, emiVars, srvVars>>

\* POST /emitir of nfce-v2.js parses the reply and reports it
ChamarResultadoNfce ==
    /\ saida = Nenhuma
    /\ entrada.tipo = "respostaNfce"
    /\ saida' = [tipo |-> "respostaNfce"] @@ ResultadoNfce(XmlDe(entrada.r), entrada.numero)
    /\ UNCHANGED <<entrada, seqVars, emiVars, srvVars>>

NextResposta ==
    \/ ChamarResultadoNfe
    \/ ChamarResultadoNfce

SpecResposta == InitResposta /\ [][NextResposta]_vars

----------------------------------------------------------------------------
(* ResponseParser: claims *)

StatusDoDocumento(r) == IF r.cStat = 104 /\ r.prot # Ausente THEN r.prot ELSE r.cStat

\* the reason text the authority gave with that status
MotivoDoDocumento(r) ==
    IF r.cStat = 104 /\ r.prot # Ausente THEN <<"protNFe", r.prot>> ELSE <<"lote", r.cStat>>

----------------------------------------------------------------------------
(* The server: claims *)

\* the answer tells its caller that the request failed
RelataFalha(r) ==
    IF "sucesso" \in DOMAIN r THEN ~r.sucesso
    ELSE IF "erro" \in DOMAIN r THEN r.erro
    ELSE r.status >= 400

\* C14: for an emission, a cancellation, an invalidation or a status query
\* at most one POST is sent to the authority whatever the outcome, and a
\* timeout or transport error is reported to the caller as a failure.
C14_UmPostSemRepeticao ==
    /\ posts <= 1
    /\ (fase = "respondido" /\ doc.rede = "falha") => (posts = 1 /\ RelataFalha(resposta))

\* a cancellation whose POST timed out has been answered
C14_Witness ==
    /\ fase = "respondido"
    /\ pedido.rota = "cancelar"
    /\ doc.rede = "falha"
    /\ posts = 1
    /\ resposta.erro

\* a signer ran for the request in hand and threw
AssinaturaFalhou ==
    /\ fase # "parado"
    /\ doc.assinaturas >= 1
    /\ ~Contem(doc.xml.filhos, "Signature")

\* C16: when signing fails (referenced element missing, Id attribute
\* missing, credential not extractable) the operation fails: signing is not
\* attempted again, nothing is sent to the authority, and the caller gets a
\* failure.
C16_FalhaDeAssinaturaEncerra ==
    /\ fase # "parado" => doc.assinaturas <= 1
    /\ AssinaturaFalhou
         => /\ posts = 0
            /\ fase \in {"retornou", "respondido"}
            /\ fase = "respondido" => RelataFalha(resposta)

\* a direct /autorizar whose infNFe has no Id attribute, with a usable
\* credential, has been refused
C16_Witness ==
    /\ fase = "respondido"
    /\ pedido.rota = "autorizar"
    /\ pedido.xmlNfe = Xml(<<"infNFe">>, FALSE, {})
    /\ pedido.cert = "valido"
    /\ AssinaturaFalhou
    /\ resposta.status = 400
    /\ posts = 0

\* C17: every POST sent to the authority goes through an https agent that
\* holds a client certificate and private key; without a credential no
\* request is sent.
C17_PostComCertificado ==
    (fase # "parado" /\ posts >= 1) => doc.agente = "comCertificado"

\* the document of the request carries a Signature block
Assinado == Contem(doc.xml.filhos, "Signature")

\* the position of the Signature block in the document
PosicaoDaAssinatura == Menor({j \in 1..Len(doc.xml.filhos) : doc.xml.filhos[j] = "Signature"})

\* the element right before the Signature block, "" when it is the first
AntesDaAssinatura ==
    IF PosicaoDaAssinatura = 1 THEN "" ELSE doc.xml.filhos[PosicaoDaAssinatura - 1]

Primeira(s, e) ==
    IF Contem(s, e) THEN Menor({j \in 1..Len(s) : s[j] = e}) ELSE 0

\* e stands in s, and before the first f
Precede(s, e, f) == Primeira(s, e) > 0 /\ Primeira(s, e) < Primeira(s, f)

\* a receipt that went through the signer
ReciboAssinado ==
    /\ fase # "parado"
    /\ pedido.rota = "nfce"
    /\ Contem(etapas, "assinatura")

\* C19 as stated: in Receipt emission the QR-code supplement block is
\* generated and embedded in the document before the signer runs, and it is
\* part of the content covered by the signature digest.
C19_QrCobertoPeloDigest ==
    ReciboAssinado =>
        /\ Precede(etapas, "qr", "assinatura")
        /\ Precede(doc.xml.filhos, "infNFeSupl", "Signature")
        /\ "infNFeSupl" \in doc.xml.coberto

\* C19 amended: in Receipt emission the QR-code supplement block is
\* generated and embedded in the document before the signer runs, so the
\* signed document holds it ahead of the Signature block; the signature
\* digest covers the infNFe block only.
C19_QrAntesDeAssinar ==
    ReciboAssinado =>
        /\ Precede(etapas, "qr", "assinatura")
        /\ Precede(doc.xml.filhos, "infNFeSupl", "Signature")
        /\ doc.xml.coberto = {"infNFe"}

\* a receipt with its QR-code supplement was signed
C19_Witness ==
    /\ ReciboAssinado
    /\ doc.xml.filhos = <<"infNFe", "infNFeSupl", "Signature">>
    /\ etapas = <<"numero", "chave", "montagem", "qr", "assinatura">>

\* ---------------------------------------------------------------------------
\* DocumentAssembler: the blocks of the Invoice (montarXMLNFe)
\* ---------------------------------------------------------------------------

\* a text field of the request body that was given / that was not given
Campo(texto) == [dado |-> TRUE, texto |-> texto]

CampoAusente == [dado |-> FALSE, texto |-> <<>>]

\* a || b on text fields: an absent field and '' are falsy
CampoOu(a, b) == IF a.dado /\ a.texto # <<>> THEN a ELSE b

\* documents of a recipient: none, '', too short, a CPF plain and
\* formatted (11 digits), a CNPJ formatted (14 digits)
CpfDigitos == <<1,2,3,4,5,6,7,8,9,0,9>>

CpfFormatado == <<5,2,9,Ponto,9,8,2,Ponto,2,4,7,Hifen,2,5>>

DocumentosDeEntrada ==
    {CampoAusente, Campo(<<>>), Campo(<<1,2,3>>), Campo(CpfDigitos),
     Campo(CpfFormatado), Campo(CnpjFormatado)}

\* dados.destinatario: not given, or an object with documento and cpf
SemDestinatario == [dado |-> FALSE, documento |-> CampoAusente, cpf |-> CampoAusente]

Destinatarios ==
    {SemDestinatario}
    \cup [dado : {TRUE}, documento : DocumentosDeEntrada, cpf : DocumentosDeEntrada]

\* cpfDest of montarXMLNFe: the test CPF in staging, else the digits of
\* destinatario?.documento || destinatario?.cpf || ''
CpfDest(destinatario, tpAmb) ==
    IF tpAmb = 2 THEN CpfDigitos
    ELSE SoDigitos(CampoOu(destinatario.documento,
                           CampoOu(destinatario.cpf, Campo(<<>>))).texto)

\* destXml of montarXMLNFe: the elements of <dest>, nothing when cpfDest is
\* empty or shorter than 11
DestXml(destinatario, tpAmb) ==
    LET cpfDest == CpfDest(destinatario, tpAmb)
    IN  IF Len(cpfDest) >= 11
        THEN <<(IF Len(cpfDest) = 11 THEN "CPF" ELSE "CNPJ"),
               "xNome", "enderDest", "indIEDest">>
        ELSE <<>>

\* respTecXml of montarXMLNFe
RespTecXml == <<"infRespTec">>

\* the template of montarXMLNFe: the blocks inside infNFe in document
\* order, and the elements of the recipient block
BlocosDaNFe(destinatario, ambiente) ==
    LET tpAmb   == TpAmb(ambiente)
        destXml == DestXml(destinatario, tpAmb)
    IN  [tpAmb |-> tpAmb,
         dest |-> destXml,
         filhos |-> <<"ide", "emit">>
                    \o (IF destXml = <<>> THEN <<>> ELSE <<"dest">>)
                    \o <<"det", "total", "transp", "pag">>
                    \o RespTecXml]

InitMontagem ==
    /\ InitSeq
    /\ arq = "nfe"
    /\ entrada \in [tipo : {"montagem"}, destinatario : Destinatarios, ambiente : Ambientes]
    /\ saida = Nenhuma
    /\ EmiParado
    /\ SrvParado

\* montarXMLNFe is called with the request's data
ChamarBlocosDaNFe ==
    /\ saida = Nenhuma
    /\ entrada.tipo = "montagem"
    /\ saida' = [tipo |-> "montagem"] @@ BlocosDaNFe(entrada.destinatario, entrada.ambiente)
    /\ UNCHANGED <<entrada, seqVars, emiVars, srvVars>>

NextMontagem == ChamarBlocosDaNFe

SpecMontagem == InitMontagem /\ [][NextMontagem]_vars

\* C20: every Invoice (model 55) assembled by montarXMLNFe, in production as
\* well as staging and whether or not the caller supplied a recipient
\* document, contains a recipient block with an address sub-block and a
\* technical-responsible-party block.
C20_DestinatarioEResponsavel ==
    saida # Nenhuma =>
        /\ Contem(saida.filhos, "dest")
        /\ Contem(saida.dest, "enderDest")
        /\ Contem(saida.filhos, "infRespTec")

\* ---------------------------------------------------------------------------
\* DocumentAssembler: the content of the assembled documents
\* ---------------------------------------------------------------------------

\* the largest number of lines (itens) of a sampled request
MaxItens == 2

\* amounts are counted in centavos; an amount that was not given is Ausente
ValoresDeEntrada == {Ausente, 0, 250, 1000}

\* a text of n characters
TextoDe(n) == [i \in 1..n |-> "X"]

\* str.substring(0, n)
Substring(str, n) == IF Len(str) <= n THEN str ELSE SubSeq(str, 1, n)

\* the entity escapeXml writes for a character
Entidade(c) ==
    CASE c = "&" -> "&amp;"
      [] c = "<" -> "&lt;"
      [] c = ">" -> "&gt;"
      [] c = "\"" -> "&quot;"
      [] c = "'" -> "&apos;"
      [] OTHER -> c

\* escapeXml of nfce-v2.js: '' for a falsy text, else every special
\* character replaced by its entity
EscapeXml(str) == [i \in 1..Len(str) |-> Entidade(str[i])]

\* formatarValor: Number(valor || 0).toFixed(2), as the integer part and
\* the two decimals
FormatarValor(valor) ==
    LET v == IF valor = Ausente THEN 0 ELSE valor
    IN  [inteiro |-> v \div 100, decimais |-> v % 100]

\* the literal '0.00' of the templates
ZeroFixo == [inteiro |-> 0, decimais |-> 0]

\* recipient names and product descriptions of a request: not given, '',
\* plain, with a special character, longer than the template allows
NomesDeEntrada ==
    {CampoAusente, Campo(<<"J", "O", "A", "O">>), Campo(<<"A", "&", "B">>), Campo(TextoDe(61))}

DescricoesDeEntrada ==
    {CampoAusente, Campo(<<"C", "A", "F", "E">>), Campo(<<"P", "<", "Q">>)}

\* dados.destinatario with its name
DestinatariosComNome ==
    {[dado |-> FALSE, documento |-> CampoAusente, cpf |-> CampoAusente, nome |-> CampoAusente]}
    \cup [dado : {TRUE}, documento : {CampoAusente, Campo(<<1,2,3>>), Campo(CpfFormatado)},
          cpf : {CampoAusente, Campo(CpfDigitos)}, nome : NomesDeEntrada]

\* one line of dados.itens
ItensDeEntrada == [descricao : DescricoesDeEntrada, valor_total : ValoresDeEntrada]

\* the lines after the first one are drawn from fewer values
ItensSeguintes ==
    [descricao : {Campo(<<"C", "A", "F", "E">>)}, valor_total : {Ausente, 250}]

\* dados.itens: 1..MaxItens lines
ListasDeItens ==
    UNION {{s \in [1..n -> ItensDeEntrada] : \A i \in 2..n : s[i] \in ItensSeguintes} :
           n \in 1..MaxItens}

\* dados.pagamento: not given, or an object with valor and troco
SemPagamento == [dado |-> FALSE, valor |-> Ausente, troco |-> Ausente]

Pagamentos ==
    {SemPagamento,
     [dado |-> TRUE, valor |-> Ausente, troco |-> Ausente],
     [dado |-> TRUE, valor |-> 0, troco |-> 0],
     [dado |-> TRUE, valor |-> 2000, troco |-> 750],
     [dado |-> TRUE, valor |-> 1000, troco |-> Ausente]}

\* the fixed texts of the templates
NomeHomologacao == <<"NF-E EMITIDA EM AMBIENTE DE HOMOLOGACAO - SEM VALOR FISCAL">>

ProdutoHomologacaoNfe == <<"PRODUTO TESTE HOMOLOGACAO">>

ProdutoHomologacaoNfce == <<"NOTA FISCAL EMITIDA EM AMBIENTE DE HOMOLOGACAO - SEM VALOR FISCAL">>

\* a || b that never falls back
ValorOu_Mut(a, b) == a

\* a || b on amounts: an absent amount and 0 are falsy
ValorOu(a, b) == IF a # Ausente /\ a # 0 THEN a ELSE b

\* vProd of the assemblers: the sum of parseFloat(item.valor_total || 0)
RECURSIVE SomaDosItens(_)
SomaDosItens(itens) ==
    IF itens = <<>> THEN 0
    ELSE ValorOu(Head(itens).valor_total, 0) + SomaDosItens(Tail(itens))

\* a recipient block of the receipt that carries the address sub-block of
\* the invoice
DestXmlNfce_Mut(cpfDest) ==
    IF Len(cpfDest) >= 11
    THEN <<(IF Len(cpfDest) = 11 THEN "CPF" ELSE "CNPJ"), "xNome", "enderDest", "indIEDest">>
    ELSE <<>>

\* destXml of montarXMLNFCe: the elements of <dest>, nothing when cpfDest is
\* empty or shorter than 11
DestXmlNfce(cpfDest) ==
    IF Len(cpfDest) >= 11
    THEN <<(IF Len(cpfDest) = 11 THEN "CPF" ELSE "CNPJ"), "xNome", "indIEDest">>
    ELSE <<>>

\* the document of montarXMLNFCe (nfce-v2.js): the blocks inside infNFe in
\* document order, the flags of ide, the recipient block, the lines, the
\* totals and the payment block
ConteudoDaNFCe(dados) ==
    LET tpAmb   == TpAmb(dados.ambiente)
        cpfDest == SoDigitos(CampoOu(dados.destinatario.documento, Campo(<<>>)).texto)
        temDest == Len(cpfDest) >= 11
        xNome   == IF tpAmb = 2 THEN NomeHomologacao
                   ELSE EscapeXml(Substring(CampoOu(dados.destinatario.nome,
                                                    Campo(<<"CONSUMIDOR">>)).texto, 60))
        vNF     == SomaDosItens(dados.itens)
    IN  [mod |-> 65,
         tpAmb |-> tpAmb,
         indFinal |-> 1,
         indPres |-> 1,
         dest |-> DestXmlNfce(cpfDest),
         xNome |-> IF temDest THEN Campo(xNome) ELSE CampoAusente,
         xProd |-> [i \in 1..Len(dados.itens) |->
                      IF tpAmb = 2 THEN ProdutoHomologacaoNfce
                      ELSE EscapeXml(Substring(CampoOu(dados.itens[i].descricao,
                                                       Campo(<<"PRODUTO">>)).texto, 120))],
         vItem |-> [i \in 1..Len(dados.itens) |-> FormatarValor(dados.itens[i].valor_total)],
         vProd |-> FormatarValor(vNF),
         vNF |-> FormatarValor(vNF),
         vPIS |-> ZeroFixo,
         vCOFINS |-> ZeroFixo,
         pag |-> <<"detPag", "vTroco">>,
         vPag |-> FormatarValor(ValorOu(dados.pagamento.valor, vNF)),
         vTroco |-> Campo(FormatarValor(ValorOu(dados.pagamento.troco, 0))),
         filhos |-> <<"ide", "emit">>
                    \o (IF temDest THEN <<"dest">> ELSE <<>>)
                    \o [i \in 1..Len(dados.itens) |-> "det"]
                    \o <<"total", "transp", "pag">>]

\* the text a template writes for ${campo}: 'undefined' when it is absent
Interpolado(campo) == IF campo.dado THEN campo.texto ELSE <<"undefined">>

\* the document of montarXMLNFe (nfe.js calling /autorizar): the recipient
\* block, the lines, the totals and the payment block
ConteudoDaNFe(dados) ==
    LET tpAmb   == TpAmb(dados.ambiente)
        destXml == DestXml(dados.destinatario, tpAmb)
        vNF     == SomaDosItens(dados.itens)
    IN  [mod |-> 55,
         tpAmb |-> tpAmb,
         indFinal |-> 1,
         indPres |-> 1,
         dest |-> destXml,
         xNome |-> IF destXml # <<>> THEN Campo(NomeHomologacao) ELSE CampoAusente,
         xProd |-> [i \in 1..Len(dados.itens) |->
                      IF tpAmb = 2 THEN ProdutoHomologacaoNfe
                      ELSE Substring(CampoOu(dados.itens[i].descricao,
                                             Campo(<<"PRODUTO">>)).texto, 120)],
         vItem |-> [i \in 1..Len(dados.itens) |-> FormatarValor(dados.itens[i].valor_total)],
         vProd |-> FormatarValor(vNF),
         vNF |-> FormatarValor(vNF),
         vPIS |-> ZeroFixo,
         vCOFINS |-> ZeroFixo,
         pag |-> <<"detPag">>,
         vPag |-> FormatarValor(ValorOu(dados.pagamento.valor, vNF)),
         vTroco |-> CampoAusente,
         filhos |-> <<"ide", "emit">>
                    \o (IF destXml = <<>> THEN <<>> ELSE <<"dest">>)
                    \o [i \in 1..Len(dados.itens) |-> "det"]
                    \o <<"total", "transp", "pag">>
                    \o RespTecXml]

\* the text of the recipient block for a request without destinatario
ConsumidorFinal == <<"CONSUMIDOR FINAL">>

\* the document of montarXMLNFe of routes/nfe.js (the handler that signs
\* and sends by itself): the recipient block, the lines, the totals and the
\* payment block
ConteudoDaNFeV1(dados) ==
    LET tpAmb   == TpAmb(dados.ambiente)
        cpfCnpj == SoDigitos(CampoOu(dados.destinatario.cpf, Campo(<<>>)).texto)
        vNF     == SomaDosItens(dados.itens)
    IN  [mod |-> 55,
         tpAmb |-> tpAmb,
         indFinal |-> 1,
         indPres |-> 1,
         dest |-> IF dados.destinatario.dado
                  THEN <<(IF Len(cpfCnpj) = 11 THEN "CPF" ELSE "CNPJ"), "xNome", "indIEDest">>
                  ELSE <<"xNome", "indIEDest">>,
         xNome |-> IF ~dados.destinatario.dado THEN Campo(ConsumidorFinal)
                   ELSE IF tpAmb = 2 THEN Campo(NomeHomologacao)
                   ELSE Campo(CampoOu(dados.destinatario.nome, Campo(<<"CONSUMIDOR">>)).texto),
         xProd |-> [i \in 1..Len(dados.itens) |-> Interpolado(dados.itens[i].descricao)],
         vItem |-> [i \in 1..Len(dados.itens) |-> FormatarValor(dados.itens[i].valor_total)],
         vProd |-> FormatarValor(vNF),
         vNF |-> FormatarValor(vNF),
         vPIS |-> ZeroFixo,
         vCOFINS |-> ZeroFixo,
         pag |-> <<"detPag">>,
         vPag |-> FormatarValor(ValorOu(dados.pagamento.valor, vNF)),
         vTroco |-> CampoAusente,
         filhos |-> <<"ide", "emit", "dest">>
                    \o [i \in 1..Len(dados.itens) |-> "det"]
                    \o <<"total", "transp", "pag", "infAdic">>
                    \o RespTecXml]

\* sampled arguments of the assemblers
DadosDeEntrada ==
    [tipo : {"nfe", "nfeV1", "nfce"}, ambiente : Ambientes, destinatario : DestinatariosComNome,
     itens : ListasDeItens, pagamento : Pagamentos]

InitConteudo ==
    /\ InitSeq
    /\ arq = "nfe"
    /\ entrada \in DadosDeEntrada
    /\ saida = Nenhuma
    /\ EmiParado
    /\ SrvParado

\* montarXMLNFCe is called with the request's data
ChamarConteudoDaNFCe ==
    /\ saida = Nenhuma
    /\ entrada.tipo = "nfce"
    /\ saida' = [tipo |-> "nfce"] @@ ConteudoDaNFCe(entrada)
    /\ UNCHANGED <<entrada, seqVars, emiVars, srvVars>>

\* montarXMLNFe of the handler that calls /autorizar
ChamarConteudoDaNFe ==
    /\ saida = Nenhuma
    /\ entrada.tipo = "nfe"
    /\ saida' = [tipo |-> "nfe"] @@ ConteudoDaNFe(entrada)
    /\ UNCHANGED <<entrada, seqVars, emiVars, srvVars>>

\* montarXMLNFe of routes/nfe.js
ChamarConteudoDaNFeV1 ==
    /\ saida = Nenhuma
    /\ entrada.tipo = "nfeV1"
    /\ saida' = [tipo |-> "nfeV1"] @@ ConteudoDaNFeV1(entrada)
    /\ UNCHANGED <<entrada, seqVars, emiVars, srvVars>>

NextConteudo ==
    \/ ChamarConteudoDaNFCe
    \/ ChamarConteudoDaNFe
    \/ ChamarConteudoDaNFeV1

SpecConteudo == InitConteudo /\ [][NextConteudo]_vars

\* C21: every Receipt (model 65) assembled by montarXMLNFCe has no recipient
\* address block and no technical-responsible-party block, carries
\* final-consumer flag 1 and in-person flag 1, and its payment block always
\* contains a change-due field, whose value is 0.00 when the caller supplied
\* none.
C21_ReciboSemEnderecoComTroco ==
    (saida # Nenhuma /\ saida.tipo = "nfce") =>
        /\ saida.mod = 65
        /\ ~Contem(saida.dest, "enderDest")
        /\ ~Contem(saida.filhos, "enderDest")
        /\ ~Contem(saida.filhos, "infRespTec")
        /\ saida.indFinal = 1
        /\ saida.indPres = 1
        /\ Contem(saida.filhos, "pag")
        /\ Contem(saida.pag, "vTroco")
        /\ saida.vTroco.dado
        /\ entrada.pagamento.troco = Ausente => saida.vTroco.texto = ZeroFixo

\* a receipt with a recipient block was assembled for a caller that gave no
\* change due
C21_Witness ==
    /\ saida # Nenhuma
    /\ saida.tipo = "nfce"
    /\ Contem(saida.filhos, "dest")
    /\ entrada.pagamento.troco = Ausente
    /\ saida.vTroco = Campo(ZeroFixo)

\* the fixed text a staging document carries as product description
ProdutoHomologacao(tipo) ==
    IF tipo = "nfce" THEN ProdutoHomologacaoNfce ELSE ProdutoHomologacaoNfe

\* C22: when the environment is staging, the recipient name and every
\* line's product description in the assembled document are fixed
\* placeholder texts that do not depend on the caller-supplied recipient
\* name or descriptions.
C22_TextosFixosEmHomologacao ==
    (saida # Nenhuma /\ saida.tpAmb = 2) =>
        /\ saida.xNome.dado => saida.xNome.texto \in {NomeHomologacao, ConsumidorFinal}
        /\ \A i \in 1..Len(saida.xProd) : saida.xProd[i] = ProdutoHomologacao(saida.tipo)

\* ---------------------------------------------------------------------------
\* The server: claims on the handling of an emission
\* ---------------------------------------------------------------------------

\* the handler of an emission has reported the authority's reply to the
\* caller
RespostaFinalRelatada ==
    /\ fase = "respondido"
    /\ pedido.rota \in {"nfe", "autorizar", "nfce"}
    /\ doc.rede = "resposta"
    /\ Contem(etapas, "parse")

\* the number of requests sent to the authority in the handling of the
\* current request, as the stage history records them
RECURSIVE Transmissoes(_)
Transmissoes(s) ==
    IF s = <<>> THEN 0
    ELSE (IF Head(s) = "transmissao" THEN 1 ELSE 0) + Transmissoes(Tail(s))

\* C23: no authorization response is reported to the caller as final unless
\* a service-status query for the same region and environment was performed
\* earlier in the handling of that emission: the authorization is then at
\* least the second request that handling sent to the authority.
C23_StatusAntesDaResposta ==
    RespostaFinalRelatada => (posts >= 2 /\ Transmissoes(etapas) >= 2)

\* ---------------------------------------------------------------------------
\* The API key middleware (middleware/auth.js) and the route mounting
\* ---------------------------------------------------------------------------

\* the paths server.js mounts routers on, and whether authMiddleware stands
\* before the router
RotasMontadas ==
    [path : {"/api/sefaz", "/api/certificado", "/api/nfe", "/api/nfce/v2"}, auth : {TRUE}]
    \cup [path : {"/health"}, auth : {FALSE}]

\* values of process.env.API_KEY: not set, '', a key
ChavesDoServidor == {CampoAusente, Campo(<<>>), Campo(<<"k1">>)}

\* values of the X-API-Key header
CabecalhosXApiKey == {CampoAusente, Campo(<<>>), Campo(<<"k1">>), Campo(<<"k2">>)}

\* values of the Authorization header
CabecalhosAuthorization ==
    {CampoAusente, Campo(<<"Bearer ">>), Campo(<<"Bearer ", "k1">>),
     Campo(<<"Bearer ", "k2">>), Campo(<<"k1">>), Campo(<<"Basic ", "k1">>)}

\* process.env.ALLOWED_IPS against the client address: not set, the
\* address is listed, the address is not listed
IpsPermitidos == {"ausente", "listado", "naoListado"}

\* str.replace(marca, ''): the first occurrence of the mark is removed
RemoverPrimeiro(str, marca) ==
    IF ~Contem(str, marca) THEN str
    ELSE LET i == Menor({j \in 1..Len(str) : str[j] = marca})
         IN  SubSeq(str, 1, i - 1) \o SubSeq(str, i + 1, Len(str))

\* req.headers['x-api-key'] || req.headers['authorization']?.replace('Bearer ', '')
ApiKey(req) ==
    IF req.xApiKey.dado /\ req.xApiKey.texto # <<>> THEN req.xApiKey
    ELSE IF req.authorization.dado
         THEN Campo(RemoverPrimeiro(req.authorization.texto, "Bearer "))
         ELSE CampoAusente

\* a comparison that lets every key pass
ChaveDiferente_Mut(apiKey, expectedKey) == FALSE

\* apiKey !== expectedKey
ChaveDiferente(apiKey, expectedKey) == apiKey.texto # expectedKey.texto

\* authMiddleware: the status it answers with, or next()
AuthMiddleware(req, expectedKey, ips) ==
    LET apiKey == ApiKey(req)
    IN  IF ~(expectedKey.dado /\ expectedKey.texto # <<>>)
        THEN [status |-> 500, next |-> FALSE]
        ELSE IF ~(apiKey.dado /\ apiKey.texto # <<>>)
        THEN [status |-> 401, next |-> FALSE]
        ELSE IF ChaveDiferente(apiKey, expectedKey)
        THEN [status |-> 403, next |-> FALSE]
        ELSE IF ips = "naoListado"
        THEN [status |-> 403, next |-> FALSE]
        ELSE [status |-> 0, next |-> TRUE]

InitAuth ==
    /\ InitSeq
    /\ arq = "nfe"
    /\ entrada \in [tipo : {"requisicao"}, rota : RotasMontadas,
                    xApiKey : CabecalhosXApiKey, authorization : CabecalhosAuthorization,
                    API_KEY : ChavesDoServidor, ips : IpsPermitidos]
    /\ saida = Nenhuma
    /\ EmiParado
    /\ SrvParado

\* a request reaches the mounted path: authMiddleware answers or calls
\* next(); a path mounted without it goes on to its router
ReceberRequisicao ==
    /\ saida = Nenhuma
    /\ entrada.tipo = "requisicao"
    /\ saida' = [tipo |-> "requisicao", executou |-> FALSE]
                @@ (IF entrada.rota.auth
                    THEN AuthMiddleware(entrada, entrada.API_KEY, entrada.ips)
                    ELSE [status |-> 0, next |-> TRUE])
    /\ UNCHANGED <<entrada, seqVars, emiVars, srvVars>>

\* the router of the mounted path runs its handler after next()
ExecutarRota ==
    /\ saida # Nenhuma
    /\ saida.tipo = "requisicao"
    /\ saida.next
    /\ ~saida.executou
    /\ saida' = [saida EXCEPT !.executou = TRUE]
    /\ UNCHANGED <<entrada, seqVars, emiVars, srvVars>>

NextAuth ==
    \/ ReceberRequisicao
    \/ ExecutarRota

SpecAuth == InitAuth /\ [][NextAuth]_vars

\* the keys a request carries: the X-API-Key header and the Authorization
\* header without its Bearer mark
ChavesDaRequisicao ==
    {c.texto : c \in {h \in {entrada.xApiKey,
                             [dado |-> entrada.authorization.dado,
                              texto |-> RemoverPrimeiro(entrada.authorization.texto, "Bearer ")]} :
                       h.dado /\ h.texto # <<>>}}

\* API_KEY is configured on the server
ChaveConfigurada == entrada.API_KEY.dado /\ entrada.API_KEY.texto # <<>>

\* a request to a path under /api/ has passed the mounting
SobApi ==
    /\ saida # Nenhuma
    /\ saida.tipo = "requisicao"
    /\ entrada.rota.path # "/health"

\* C24: no route handler mounted under /api/ runs unless the request
\* carried an API key (X-API-Key header or Bearer authorization) equal to
\* the configured API_KEY; a missing server key yields 500, a missing
\* request key 401, and a wrong key 403, each without invoking the handler.
C24_SoComChaveDeApi ==
    SobApi =>
        /\ saida.executou => (ChaveConfigurada /\ entrada.API_KEY.texto \in ChavesDaRequisicao)
        /\ ~ChaveConfigurada => (saida.status = 500 /\ ~saida.next /\ ~saida.executou)
        /\ (ChaveConfigurada /\ ChavesDaRequisicao = {})
               => (saida.status = 401 /\ ~saida.next /\ ~saida.executou)
        /\ (ChaveConfigurada /\ ChavesDaRequisicao # {}
               /\ entrada.API_KEY.texto \notin ChavesDaRequisicao)
               => (saida.status = 403 /\ ~saida.next /\ ~saida.executou)

\* a handler under /api/ ran for a request that carried the configured key
\* as Bearer authorization
C24_Witness ==
    /\ SobApi
    /\ saida.executou
    /\ ~entrada.xApiKey.dado
    /\ entrada.authorization = Campo(<<"Bearer ", "k1">>)

\* the centavos a written amount stands for
Centavos(v) == v.inteiro * 100 + v.decimais

\* the sum of the line totals written in the document
RECURSIVE SomaDasLinhas(_)
SomaDasLinhas(linhas) ==
    IF linhas = <<>> THEN 0 ELSE Centavos(Head(linhas)) + SomaDasLinhas(Tail(linhas))

MaxChamadas == 3

\* values of CERT_PFX_BASE64 / CERT_PASSWORD over the life of the process
CredenciaisDoAmbiente == Credenciais \cup Extraiveis

InitAgente ==
    /\ InitSeq
    /\ arq = "nfe"
    /\ entrada = Nenhuma
    /\ saida = [tipo |-> "agente", chamadas |-> <<>>]
    /\ EmiParado
    /\ certServidor \in CredenciaisDoAmbiente
    /\ cachedHttpsAgent = "null"

\* a handler calls getHttpsAgent(); the call reads process.env and the
\* cache, and is recorded with the credential it found configured
ChamarGetHttpsAgent ==
    /\ saida.tipo = "agente"
    /\ Len(saida.chamadas) < MaxChamadas
    /\ LET ag == GetHttpsAgent(cachedHttpsAgent, certServidor)
       IN  /\ cachedHttpsAgent' = ag.cache
           /\ saida' = [saida EXCEPT !.chamadas =
                          Append(@, [credencial |-> certServidor, agente |-> ag.agente])]
    /\ UNCHANGED <<entrada, seqVars, emiVars, certServidor>>

\* the configured credential is changed between two calls
MudarCredencial ==
    /\ saida.tipo = "agente"
    /\ Len(saida.chamadas) < MaxChamadas
    /\ \E c \in CredenciaisDoAmbiente \ {certServidor} : certServidor' = c
    /\ UNCHANGED <<entrada, saida, seqVars, emiVars, cachedHttpsAgent>>

NextAgente ==
    \/ ChamarGetHttpsAgent
    \/ MudarCredencial

SpecAgente == InitAgente /\ [][NextAgente]_vars

\* the calls that found an extractable credential configured
Sucessos == {i \in 1..Len(saida.chamadas) : saida.chamadas[i].credencial \in Extraiveis}

\* C26: the server credential is cached only after a successful extraction:
\* once getHttpsAgent has succeeded, every later call returns the same
\* cached agent for the life of the process regardless of later changes to
\* the configured credential, and a failed or missing-credential extraction
\* never populates the cache.
C26_CacheSoAposSucesso ==
    saida.tipo = "agente" =>
        IF Sucessos = {}
        THEN /\ cachedHttpsAgent = "null"
             /\ \A i \in 1..Len(saida.chamadas) : saida.chamadas[i].agente = "semCertificado"
        ELSE LET p == Menor(Sucessos)
             IN  /\ cachedHttpsAgent = AgenteCom(saida.chamadas[p].credencial)
                 /\ \A i \in 1..Len(saida.chamadas) :
                        saida.chamadas[i].agente =
                            IF i < p THEN "semCertificado" ELSE cachedHttpsAgent

\* after a successful call the credential was replaced by another
\* extractable one, and the next call still returned the first agent
C26_Witness ==
    /\ saida.tipo = "agente"
    /\ Len(saida.chamadas) >= 2
    /\ saida.chamadas[1] = [credencial |-> "valido", agente |-> "comCertificado"]
    /\ saida.chamadas[2] = [credencial |-> "rotacionado", agente |-> "comCertificado"]

\* ---------------------------------------------------------------------------
\* Emission pipeline: the document against its endpoint
\* ---------------------------------------------------------------------------

\* the document of an emission was posted to the authority
EmissaoEnviada ==
    /\ fase # "parado"
    /\ pedido.rota \in {"nfe", "nfce"}
    /\ posts >= 1

\* C27: for every emission assembled by this system, the environment flag
\* written into the document (tpAmb: 1 production, 2 staging) agrees with
\* the environment of the endpoint URL the document is posted to, for every
\* value of the request's environment field (1, 2, '1', absent, or anything
\* else).
C27_AmbienteDoDocumentoEDaUrl ==
    EmissaoEnviada =>
        /\ doc.tpAmb \in {1, 2}
        /\ doc.sefazUrl[3] \in {"producao", "homologacao"}
        /\ (doc.tpAmb = 1) <=> (doc.sefazUrl[3] = "producao")

\* an invoice whose request gave the text '1' as environment was posted
C27_Witness ==
    /\ EmissaoEnviada
    /\ pedido.ambiente = AmbTexto1
    /\ doc.tpAmb = 2
    /\ doc.sefazUrl[3] = "homologacao"

\* the region an invoice emission is routed by: the uf that POST /emitir
\* hands to POST /autorizar, in upper case
RegiaoDaRota == ToUpperCase(doc.corpo.uf)

\* C28: for every Invoice emission, the region numeric code placed in the
\* document and in its access key is the code of the same region whose
\* endpoint the document is routed to, including when the region comes from
\* the issuer's address instead of the request's region field or is not a
\* known region code.
C28_RegiaoDoDocumentoEDaRota ==
    (EmissaoEnviada /\ pedido.rota = "nfe") =>
        /\ RegiaoDaRota \in DOMAIN UF_CODIGOS
        /\ doc.cUF = UF_CODIGOS[RegiaoDaRota]

\* ---------------------------------------------------------------------------
\* DocumentAssembler: the issue timestamp and the year/month of the key
\* ---------------------------------------------------------------------------

\* the days of a year before each month (years of 365 days), by month 0..12
DiasAntes == <<0, 31, 59, 90, 120, 151, 181, 212, 243, 273, 304, 334, 365>>

\* an instant (a Date) is counted in hours since 2000-01-01T00:00Z
Instante(ano, mes0, dia, hora) ==
    (((ano - 2000) * 365 + DiasAntes[mes0 + 1] + (dia - 1)) * 24) + hora

\* the calendar fields of an instant read at the offset fuso (hours east of
\* UTC): what getFullYear / getMonth / getDate / getHours give on a server
\* at that offset, and what toISOString gives at offset 0
CamposDaData(instante, fuso) ==
    LET h    == instante + fuso
        dias == h \div 24
        doy  == dias % 365
        mes0 == CHOOSE m \in 0..11 : DiasAntes[m + 1] <= doy /\ doy < DiasAntes[m + 2]
    IN  [ano |-> 2000 + (dias \div 365), mes0 |-> mes0,
         dia |-> doy - DiasAntes[mes0 + 1] + 1, hora |-> h % 24]

\* date.toISOString().slice(0, 19): the fields in UTC
ToISOString(instante) == CamposDaData(instante, 0)

\* current instants around the turn of a month and of a year, and one in
\* the middle of a month
InstantesDeEntrada ==
    {Instante(2025, md[1], md[2], hora) :
        md \in {<<0, 1>>, <<0, 31>>, <<1, 1>>, <<5, 15>>, <<11, 31>>}, hora \in 0..23}

\* time-zone offsets of the server, in hours east of UTC
FusosDoServidor == {-4, -3, 0, 1}

\* montarXMLNFe: dataMS = new Date(dataAtual.getTime() - 4h); AAMM is taken
\* from dataMS.getFullYear() and dataMS.getMonth(), dhEmi from
\* dataMS.toISOString()
DataMS(agora, fuso) ==
    LET dataMS == agora - 4
    IN  [ano |-> CamposDaData(dataMS, fuso).ano,
         mes0 |-> CamposDaData(dataMS, fuso).mes0,
         dhEmi |-> ToISOString(dataMS)]

InitData ==
    /\ InitSeq
    /\ arq = "nfe"
    /\ entrada \in [tipo : {"data"}, agora : InstantesDeEntrada, fuso : FusosDoServidor]
    /\ saida = Nenhuma
    /\ EmiParado
    /\ SrvParado

\* montarXMLNFe is called at the instant agora on a server at offset fuso
ChamarMontarNaData ==
    /\ saida = Nenhuma
    /\ entrada.tipo = "data"
    /\ LET d == DataMS(entrada.agora, entrada.fuso)
       IN  saida' = [tipo |-> "data", dhEmi |-> d.dhEmi,
                     chaveAcesso |->
                         MontarXMLNFe([uf |-> "MS", ano |-> d.ano, mes0 |-> d.mes0,
                                       cnpj |-> CnpjDigitos, serie |-> 1, numero |-> 1,
                                       r |-> 7]).chaveAcesso]
    /\ UNCHANGED <<entrada, seqVars, emiVars, srvVars>>

NextData == ChamarMontarNaData

SpecData == InitData /\ [][NextData]_vars

\* C29: in every assembled Invoice the year/month field of the access key
\* (digits 3 to 6) equals the year and month of the issue timestamp (dhEmi)
\* written in the same document, for every current instant and every server
\* time-zone offset.
C29_AnoMesDaChaveEDoDhEmi ==
    (saida # Nenhuma /\ saida.tipo = "data") =>
        SubSeq(saida.chaveAcesso, 3, 6) =
            SliceFim(StringDe(saida.dhEmi.ano), 2) \o PadStart(StringDe(saida.dhEmi.mes0 + 1), 2)

\* ---------------------------------------------------------------------------
\* DocumentAssembler: the recipient name of an Invoice
\* ---------------------------------------------------------------------------

\* the request names its recipient
NomeInformado ==
    /\ entrada.destinatario.dado
    /\ entrada.destinatario.nome.dado
    /\ entrada.destinatario.nome.texto # <<>>

\* C30: the staging placeholder recipient name appears in an assembled
\* Invoice only when the environment is staging; in production the recipient
\* name written is the caller-supplied one.
C30_NomeDoDestinatarioPorAmbiente ==
    (saida # Nenhuma /\ saida.tipo \in {"nfe", "nfeV1"} /\ saida.xNome.dado) =>
        /\ saida.xNome.texto = NomeHomologacao => saida.tpAmb = 2
        /\ (saida.tpAmb = 1 /\ NomeInformado) =>
               saida.xNome.texto = entrada.destinatario.nome.texto

====
